---- MODULE Spec2Model ----
(***************************************************************************)
(* Battle City multiplayer server: the per-room GameEngine                 *)
(* (src/unnamed/part_008, with the stage map of src/unnamed/part_009) and   *)
(* the socket gateway of src/server/src/index.ts with GameStateManager.     *)
(*                                                                         *)
(* Numbers.  Coordinates of the engine are JS doubles; every value the      *)
(* engine computes is a multiple of 0.005 (speeds 0.045 and 0.18 per ms,    *)
(* integer millisecond deltas, offsets 6.5, threshold 0.01), so the model   *)
(* keeps coordinates as integers in units of 1/Scale = 0.005 and the        *)
(* arithmetic is exact.  Times are integer milliseconds.                    *)
(***************************************************************************)
EXTENDS Integers, Sequences, FiniteSets, TLC

VARIABLES
    \* ---- GameEngine (one engine) ----
    tanks,            \* state.tanks: sequence of TankState
    bullets,          \* state.bullets: sequence of BulletState
    brokenBricks,     \* state.map.bricks: the indices the engine has set to false
    brokenSteels,     \* state.map.steels: the indices the engine has set to false
    players,          \* state.players: [role -> [lives, score, activeTankId]]
    remainingBots,    \* state.remainingBots
    gameStatus,       \* state.gameStatus
    tickInterval,     \* tickInterval !== null
    tickIntervals,    \* the tick intervals set and not cleared
    tankIdCounter,
    bulletIdCounter,
    playerInputs,     \* the two latest-input cells
    ticks,            \* number of ticks run so far (bounds the exploration)
    starts,           \* number of start() calls so far (bounds the exploration)
    \* ---- the socket gateway ----
    numSockets,         \* connections accepted so far; socket ids are 1..numSockets
    connected,          \* the sockets that are connected
    ioRooms,            \* socket.io: the rooms each socket has joined
    rooms,              \* RoomManager: the rooms with their two slots
    numRooms,           \* rooms created so far; room ids are 1..numRooms
    numSessions,        \* session ids issued so far
    enemySpawnTimers,   \* the room ids that are keys of the map enemySpawnTimers
    spawnIntervals,     \* the spawn intervals set and not cleared, per room id
    stateSyncTimers,    \* the room ids that are keys of the map stateSyncTimers
    syncIntervals,      \* the sync intervals set and not cleared, per room id
    roomEnemyCounters,  \* GameStateManager: the position in each room's enemy queue
    reconnectTimeouts,  \* the pending setTimeout callbacks of disconnects, oldest first
    tokens,             \* InputValidator: the tokens left in each socket's bucket
    spawnTicks,         \* firings of spawn intervals so far (bounds the exploration)
    emitted,            \* what the last handler emitted, in order
    last,               \* the last handler: its name, socket, room, session, payload
    reachedTwo,         \* history: the rooms that have had two players
    stoppedRooms,       \* history: the rooms left or timed out of since their last start
    expired,            \* history: the sessions removed at the end of their grace, with the
                        \* sockets of the players then connected and those sent player_left
    rebound,            \* history: the socket ids that a reconnect has replaced, with
                        \* the session that reconnected
    \* ---- drawn engine states ----
    drawn,              \* history: the tanks and bullets that the last tick on a drawn
                        \* state started from
    \* ---- GameStateManager, twice ----
    managers,           \* roomEnemyQueues and roomEnemyCounters of each of two managers
    clock,              \* Date.now()
    trial,              \* a manager's queue, counter and last spawn for a room given by its seed
    \* ---- the client ----
    prediction,         \* multiplayerGameSaga: localInputState, predictedPosition,
                        \* lastServerState, the local player's tank in the store
    lobby,              \* the multiplayer record of the store, where the lobby saga is,
                        \* and the actions dispatched so far
    service             \* SocketService: socket, connectionStatus, roomInfo, what it sent

engineVars == <<tanks, bullets, brokenBricks, brokenSteels, players, remainingBots, gameStatus,
                tickInterval, tickIntervals, tankIdCounter, bulletIdCounter, playerInputs, ticks, starts>>

serverVars == <<numSockets, connected, ioRooms, rooms, numRooms, numSessions, enemySpawnTimers, spawnIntervals,
                stateSyncTimers, syncIntervals, roomEnemyCounters, reconnectTimeouts, tokens, spawnTicks,
                emitted, last, reachedTwo, stoppedRooms, expired,
                rebound>>

gsmVars == <<managers, clock, trial>>

clientVars == <<prediction, lobby, service>>

vars == <<engineVars, serverVars, drawn, gsmVars, clientVars>>

----------------------------------------------------------------------------
(* Constants of part_008 *)

Scale == 200                               \* model units per coordinate unit
BLOCK_SIZE == 16
FIELD_SIZE == BLOCK_SIZE * 13
TANK_SIZE == 16
BULLET_SIZE == 3
BRICK_SIZE == 4
STEEL_SIZE == 8
BRICKS_PER_ROW == FIELD_SIZE \div BRICK_SIZE
STEELS_PER_ROW == FIELD_SIZE \div STEEL_SIZE
TANK_SPEED_player == 9                     \* 0.045 per ms, in model units
BULLET_SPEED == 36                         \* 0.18 per ms, in model units
WALL_THRESHOLD == -2                       \* -0.01, in model units
FIRE_COOLDOWN == 300
HELMET_DURATION == 2000

U(n) == n * Scale

Roles == <<"host", "guest">>
RoleSet == {"host", "guest"}
Directions == {"up", "down", "left", "right"}
NoDirection == "none"                      \* JS null

Max(a, b) == IF a >= b THEN a ELSE b
Min(a, b) == IF a <= b THEN a ELSE b

floor8(x) == (x \div U(8)) * U(8)
ceil8(x) == ((x + U(8) - 1) \div U(8)) * U(8)
\* Math.round rounds halves up; coordinates are never negative
round8(x) == ((x + U(4)) \div U(8)) * U(8)

PLAYER_SPAWN_POSITIONS ==
    [host |-> [x |-> U(4 * BLOCK_SIZE), y |-> U(12 * BLOCK_SIZE)],
     guest |-> [x |-> U(8 * BLOCK_SIZE), y |-> U(12 * BLOCK_SIZE)]]

----------------------------------------------------------------------------
(* part_009: parseStageMap on STAGE_1_MAP.  A token is <<letter, hex digit>>. *)

FIELD_BLOCK_SIZE == 13

TX == <<"x", 0>>
TE == <<"e", 0>>
TB(h) == <<"b", h>>
TT(h) == <<"t", h>>

STAGE_1_MAP ==
  << <<TX, TX, TX, TX, TX, TX, TX, TX, TX, TX, TX, TX, TX>>,
     <<TX, TB(15), TX, TB(15), TX, TB(15), TX, TB(15), TX, TB(15), TX, TB(15), TX>>,
     <<TX, TB(15), TX, TB(15), TX, TB(15), TX, TB(15), TX, TB(15), TX, TB(15), TX>>,
     <<TX, TB(15), TX, TB(15), TX, TB(15), TT(15), TB(15), TX, TB(15), TX, TB(15), TX>>,
     <<TX, TB(15), TX, TB(15), TX, TB(3), TX, TB(3), TX, TB(15), TX, TB(15), TX>>,
     <<TX, TB(3), TX, TB(3), TX, TB(12), TX, TB(12), TX, TB(3), TX, TB(3), TX>>,
     <<TB(12), TX, TB(12), TB(12), TX, TB(3), TX, TB(3), TX, TB(12), TB(12), TX, TB(12)>>,
     <<TT(3), TX, TB(3), TB(3), TX, TB(12), TX, TB(12), TX, TB(3), TB(3), TX, TT(3)>>,
     <<TX, TB(12), TX, TB(12), TX, TB(15), TB(15), TB(15), TX, TB(12), TX, TB(12), TX>>,
     <<TX, TB(15), TX, TB(15), TX, TB(15), TX, TB(15), TX, TB(15), TX, TB(15), TX>>,
     <<TX, TB(15), TX, TB(15), TX, TB(3), TX, TB(3), TX, TB(15), TX, TB(15), TX>>,
     <<TX, TB(15), TX, TB(15), TX, TB(8), TB(12), TB(4), TX, TB(15), TX, TB(15), TX>>,
     <<TX, TX, TX, TX, TX, TB(10), TE, TB(5), TX, TX, TX, TX, TX>> >>

Pow2(k) == IF k = 0 THEN 1 ELSE IF k = 1 THEN 2 ELSE IF k = 2 THEN 4 ELSE 8
BitSet(n, k) == (n \div Pow2(k)) % 2 = 1

\* parseBrickBits for a one-digit token: the four nibbles of the 16-bit bitmap,
\* part 0 being the most significant one
parseBrickBits(short) ==
    [p \in 0..3 |-> IF BitSet(short, p) THEN 15 ELSE 0]

\* the brick indices one token sets to true
BrickCellsOfToken(row, col, short) ==
    LET bits == parseBrickBits(short)
        brickRow == 4 * row
        brickCol == 4 * col
        N == BRICKS_PER_ROW
    IN { (brickRow + 2 * (p \div 2)) * N + brickCol + 2 * (p % 2) + (b % 2) + N * (b \div 2) :
           <<p, b>> \in { pb \in (0..3) \X (0..3) : BitSet(bits[pb[1]], pb[2]) } }

SteelCellsOfToken(row, col, bits) ==
    { (2 * row + (b \div 2)) * STEELS_PER_ROW + 2 * col + (b % 2) :
        b \in { k \in 0..3 : BitSet(bits, k) } }

\* parseStageMap: the arrays bricks and steels, each given as the set of the indices
\* it holds true at (every other index of the array holds false)
parseStageMap(map) ==
    LET cells == (0..FIELD_BLOCK_SIZE - 1) \X (0..FIELD_BLOCK_SIZE - 1)
        tok(rc) == map[rc[1] + 1][rc[2] + 1]
    IN [bricks |-> UNION { BrickCellsOfToken(rc[1], rc[2], tok(rc)[2]) :
                             rc \in { c \in cells : tok(c)[1] = "b" } },
        steels |-> UNION { SteelCellsOfToken(rc[1], rc[2], tok(rc)[2]) :
                             rc \in { c \in cells : tok(c)[1] = "t" } }]

Stage1 == parseStageMap(STAGE_1_MAP)
Stage1Bricks == Stage1.bricks
Stage1Steels == Stage1.steels

----------------------------------------------------------------------------
(* Collision core *)

between(min, value, max, th) == min - th <= value /\ value <= max + th

testCollision(x1, y1, w1, h1, x2, y2, w2, h2, threshold) ==
    /\ between(x2 - w1, x1, x2 + w2, threshold)
    /\ between(y2 - h1, y1, y2 + h2, threshold)

\* The grid indices of the cells of size `cell` (per) that lie within one cell of the
\* rectangle (x, y, size): every other cell fails testCollision, so scanning these
\* gives the result of the code's scan of the whole array.
CellsNear(x, y, size, cell, per) ==
    LET c1 == Max(0, (x \div U(cell)) - 1)
        c2 == Min(per - 1, ((x + U(size)) \div U(cell)) + 1)
        r1 == Max(0, (y \div U(cell)) - 1)
        r2 == Min(per - 1, ((y + U(size)) \div U(cell)) + 1)
    IN { r * per + c : r \in r1..r2, c \in c1..c2 }

\* The arrays state.map.bricks and state.map.steels hold parseStageMap's arrays with
\* the cells the engine has cleared since: the engine never writes true into them and
\* writes only at indices inside them, so the state keeps the cleared indices.
brickAt(broken, i) == i \in Stage1Bricks /\ i \notin broken
steelAt(broken, i) == i \in Stage1Steels /\ i \notin broken

checkTankWallCollisionIn(bb, sb, x, y) ==
    \/ \E i \in CellsNear(x, y, TANK_SIZE, BRICK_SIZE, BRICKS_PER_ROW) :
          /\ brickAt(bb, i)
          /\ testCollision(x, y, U(TANK_SIZE), U(TANK_SIZE),
                           U((i % BRICKS_PER_ROW) * BRICK_SIZE),
                           U((i \div BRICKS_PER_ROW) * BRICK_SIZE),
                           U(BRICK_SIZE), U(BRICK_SIZE), WALL_THRESHOLD)
    \/ \E i \in CellsNear(x, y, TANK_SIZE, STEEL_SIZE, STEELS_PER_ROW) :
          /\ steelAt(sb, i)
          /\ testCollision(x, y, U(TANK_SIZE), U(TANK_SIZE),
                           U((i % STEELS_PER_ROW) * STEEL_SIZE),
                           U((i \div STEELS_PER_ROW) * STEEL_SIZE),
                           U(STEEL_SIZE), U(STEEL_SIZE), WALL_THRESHOLD)

\* state.map.bricks and state.map.steels as arrays
bricks == [i \in 0..(BRICKS_PER_ROW * BRICKS_PER_ROW - 1) |-> brickAt(brokenBricks, i)]
steels == [i \in 0..(STEELS_PER_ROW * STEELS_PER_ROW - 1) |-> steelAt(brokenSteels, i)]

checkTankWallCollision(x, y) == checkTankWallCollisionIn(brokenBricks, brokenSteels, x, y)

----------------------------------------------------------------------------
(* GameEngine: construction, start, stop, handleInput *)

MaxStarts == 2          \* start() calls explored
MaxTicks == 2           \* ticks explored with free frame times
MaxFrames == 10         \* ticks explored along FrameTimes

NoInput == [direction |-> NoDirection, moving |-> FALSE, firing |-> FALSE]

createInitialState ==
    [tanks |-> << >>,
     bullets |-> << >>,
     brokenBricks |-> {},
     brokenSteels |-> {},
     players |-> [r \in RoleSet |-> [lives |-> 3, score |-> 0, activeTankId |-> 0]],
     remainingBots |-> 20,
     gameStatus |-> "waiting"]

EngineInit ==
    /\ tanks = createInitialState.tanks
    /\ bullets = createInitialState.bullets
    /\ brokenBricks = {}
    /\ brokenSteels = {}
    /\ players = createInitialState.players
    /\ remainingBots = createInitialState.remainingBots
    /\ gameStatus = createInitialState.gameStatus
    /\ tickInterval = FALSE
    /\ tickIntervals = 0
    /\ tankIdCounter = 0
    /\ bulletIdCounter = 0
    /\ playerInputs = [r \in RoleSet |-> NoInput]
    /\ ticks = 0
    /\ starts = 0

\* spawnPlayerTank on the state s = [tanks, players, counter]
spawnPlayerTank(s, role) ==
    LET spawnPos == PLAYER_SPAWN_POSITIONS[role]
        tankId == s.counter + 1
        tank == [tankId |-> tankId,
                 x |-> spawnPos.x,
                 y |-> spawnPos.y,
                 direction |-> "up",
                 moving |-> FALSE,
                 alive |-> TRUE,
                 side |-> "player",
                 level |-> "basic",
                 color |-> IF role = "host" THEN "yellow" ELSE "green",
                 hp |-> 1,
                 helmetDuration |-> HELMET_DURATION,
                 frozenTimeout |-> 0,
                 cooldown |-> 0,
                 withPowerUp |-> FALSE]
    IN [tanks |-> Append(s.tanks, tank),
        players |-> [s.players EXCEPT ![role].activeTankId = tankId],
        counter |-> tankId]

Start ==
    /\ starts < MaxStarts
    /\ starts' = starts + 1
    /\ IF tickInterval
         THEN UNCHANGED <<tanks, players, tankIdCounter, gameStatus, tickInterval, tickIntervals>>
         ELSE LET s0 == [tanks |-> tanks, players |-> players, counter |-> tankIdCounter]
                  s1 == spawnPlayerTank(s0, "host")
                  s2 == spawnPlayerTank(s1, "guest")
              IN /\ tanks' = s2.tanks
                 /\ players' = s2.players
                 /\ tankIdCounter' = s2.counter
                 /\ gameStatus' = "playing"
                 /\ tickInterval' = TRUE
                 /\ tickIntervals' = tickIntervals + 1
    /\ UNCHANGED <<bullets, brokenBricks, brokenSteels, remainingBots, bulletIdCounter, playerInputs, ticks>>
    /\ UNCHANGED <<serverVars, drawn, gsmVars, clientVars>>

Stop ==
    /\ tickInterval' = FALSE
    /\ tickIntervals' = IF tickInterval THEN tickIntervals - 1 ELSE tickIntervals
    /\ gameStatus' = "finished"
    /\ UNCHANGED <<tanks, bullets, brokenBricks, brokenSteels, players, remainingBots, tankIdCounter,
                   bulletIdCounter, playerInputs, ticks, starts>>
    /\ UNCHANGED <<serverVars, drawn, gsmVars, clientVars>>

\* variant: firing is stored only when the cell was not firing
storeInputOnEdge(cells, role, input) ==
    IF gameStatus # "playing" THEN cells
    ELSE [cells EXCEPT ![role] =
            [direction |-> IF input.direction # NoDirection
                             THEN input.direction
                             ELSE cells[role].direction,
             moving |-> input.moving,
             firing |-> input.firing /\ ~cells[role].firing]]

\* lines 616-624: the cells that handleInput(role, input) leaves; input.direction may be
\* absent (NoDirection)
storeInput(cells, role, input) ==
    IF gameStatus # "playing" THEN cells
    ELSE [cells EXCEPT ![role] =
            [direction |-> IF input.direction # NoDirection
                             THEN input.direction
                             ELSE cells[role].direction,
             moving |-> input.moving,
             firing |-> input.firing]]

handleInput(role, input) ==
    /\ playerInputs' = storeInput(playerInputs, role, input)
    /\ UNCHANGED <<tanks, bullets, brokenBricks, brokenSteels, players, remainingBots, gameStatus,
                   tickInterval, tickIntervals, tankIdCounter, bulletIdCounter, ticks, starts>>
    /\ UNCHANGED <<serverVars, drawn, gsmVars, clientVars>>

----------------------------------------------------------------------------
(* GameEngine.tick *)

\* tanks.find(t => t.tankId === id): the index of the first such tank, 0 if none
FindTank(ts, id) ==
    IF \E i \in 1..Len(ts) : ts[i].tankId = id
      THEN CHOOSE i \in 1..Len(ts) :
             /\ ts[i].tankId = id
             /\ \A j \in 1..(i - 1) : ts[j].tankId # id
      ELSE 0

calculateNewPosition(x, y, direction, speed) ==
    CASE direction = "up" -> [x |-> x, y |-> y - speed]
      [] direction = "down" -> [x |-> x, y |-> y + speed]
      [] direction = "left" -> [x |-> x - speed, y |-> y]
      [] direction = "right" -> [x |-> x + speed, y |-> y]

clampPosition(x, y, size) ==
    [x |-> Max(0, Min(U(FIELD_SIZE - size), x)),
     y |-> Max(0, Min(U(FIELD_SIZE - size), y))]

\* variant: the coordinate is taken down to the block grid
getAlignedToBlock(x, y, axis) ==
    ((IF axis = "x" THEN x ELSE y) \div U(BLOCK_SIZE)) * U(BLOCK_SIZE)

\* variant: the coordinate is rounded whatever is in the way
getAlignedRounded(x, y, axis) == round8(IF axis = "x" THEN x ELSE y)

getAlignedCoordinate(x, y, axis) ==
    LET coord == IF axis = "x" THEN x ELSE y
        floorVal == floor8(coord)
        ceilVal == ceil8(coord)
        roundVal == round8(coord)
        canFloor == IF axis = "x" THEN ~checkTankWallCollision(floorVal, y)
                                  ELSE ~checkTankWallCollision(x, floorVal)
        canCeil == IF axis = "x" THEN ~checkTankWallCollision(ceilVal, y)
                                 ELSE ~checkTankWallCollision(x, ceilVal)
    IN IF ~canFloor /\ canCeil THEN ceilVal
       ELSE IF canFloor /\ ~canCeil THEN floorVal
       ELSE roundVal

IsHorizontal(d) == d = "left" \/ d = "right"

\* the direction change of updatePlayerTanks (lines 228-252)
TurnTank(tank, newDir) ==
    LET oldDir == tank.direction
        isPerpendicular == IsHorizontal(oldDir) # IsHorizontal(newDir)
        aligned ==
          IF ~isPerpendicular THEN tank
          ELSE IF IsHorizontal(oldDir)
            THEN [tank EXCEPT !.x = Max(0, Min(U(FIELD_SIZE - TANK_SIZE),
                                               getAlignedCoordinate(tank.x, tank.y, "x")))]
            ELSE [tank EXCEPT !.y = Max(0, Min(U(FIELD_SIZE - TANK_SIZE),
                                               getAlignedCoordinate(tank.x, tank.y, "y")))]
    IN [aligned EXCEPT !.direction = newDir]

\* variant: the tank goes to the clamped position whatever is there
MoveTankThrough(tank, delta) ==
    LET newPos == calculateNewPosition(tank.x, tank.y, tank.direction, TANK_SPEED_player * delta)
        clampedPos == clampPosition(newPos.x, newPos.y, TANK_SIZE)
    IN [tank EXCEPT !.x = clampedPos.x, !.y = clampedPos.y]

\* the move of updatePlayerTanks (lines 255-268)
MoveTank(tank, delta) ==
    LET speed == TANK_SPEED_player * delta
        newPos == calculateNewPosition(tank.x, tank.y, tank.direction, speed)
        clampedPos == clampPosition(newPos.x, newPos.y, TANK_SIZE)
    IN IF ~checkTankWallCollision(clampedPos.x, clampedPos.y)
         THEN [tank EXCEPT !.x = clampedPos.x, !.y = clampedPos.y]
         ELSE tank

\* the bullet fireBullet(tank) creates, with the id it is given
fireBullet(tank, bulletId) ==
    LET cx == tank.x + (U(TANK_SIZE - BULLET_SIZE) \div 2)
        cy == tank.y + (U(TANK_SIZE - BULLET_SIZE) \div 2)
        bulletX == CASE tank.direction = "left" -> tank.x - U(BULLET_SIZE)
                     [] tank.direction = "right" -> tank.x + U(TANK_SIZE)
                     [] OTHER -> cx
        bulletY == CASE tank.direction = "up" -> tank.y - U(BULLET_SIZE)
                     [] tank.direction = "down" -> tank.y + U(TANK_SIZE)
                     [] OTHER -> cy
    IN [bulletId |-> bulletId,
        x |-> bulletX,
        y |-> bulletY,
        direction |-> tank.direction,
        speed |-> BULLET_SPEED,
        tankId |-> tank.tankId,
        power |-> 1]

\* lines 228-252: a new direction turns the tank
steer(tank, input) ==
    IF input.direction # NoDirection /\ input.direction # tank.direction
      THEN TurnTank(tank, input.direction)
      ELSE tank

\* lines 255-268: a moving tank moves
drive(tank, input, delta) == IF input.moving THEN MoveTank(tank, delta) ELSE tank

\* lines 271-273: a firing tank whose cooldown has run out fires; on
\* s = [tanks, bullets, bid] with the tank at index idx replaced by tank
shoot(s, idx, tank, fire) ==
    [tanks |-> [s.tanks EXCEPT ![idx] = IF fire THEN [tank EXCEPT !.cooldown = FIRE_COOLDOWN]
                                                ELSE tank],
     bullets |-> IF fire THEN Append(s.bullets, fireBullet(tank, s.bid + 1)) ELSE s.bullets,
     bid |-> IF fire THEN s.bid + 1 ELSE s.bid]

\* variant: the cooldown is not looked at
shootWhileCooling(s, idx, tank, input) == shoot(s, idx, tank, input.firing)

shootIfReady(s, idx, tank, input) == shoot(s, idx, tank, input.firing /\ tank.cooldown <= 0)

updateTankAt(s, idx, input, delta) ==
    IF idx = 0 THEN s
    ELSE IF ~s.tanks[idx].alive THEN s
    ELSE shootIfReady(s, idx,
                      drive(steer([s.tanks[idx] EXCEPT !.moving = input.moving], input),
                            input, delta),
                      input)

\* one iteration of the loop of updatePlayerTanks, on s = [tanks, bullets, bid]
updatePlayerTank(s, role, delta) ==
    IF players[role].activeTankId = 0 THEN s
    ELSE updateTankAt(s, FindTank(s.tanks, players[role].activeTankId),
                      playerInputs[role], delta)

updatePlayerTanks(s, delta) ==
    updatePlayerTank(updatePlayerTank(s, Roles[1], delta), Roles[2], delta)

\* variant: the lower edge is not looked at
InFieldAboveOnly(b) ==
    /\ b.x >= 0 /\ b.x + U(BULLET_SIZE) <= U(FIELD_SIZE)
    /\ b.y >= 0

\* lines 417-420: the filter of updateBullets
InField(b) ==
    /\ b.x >= 0 /\ b.x + U(BULLET_SIZE) <= U(FIELD_SIZE)
    /\ b.y >= 0 /\ b.y + U(BULLET_SIZE) <= U(FIELD_SIZE)

\* variant: the moved bullets are all kept
updateBulletsKeeping(bs, delta) ==
    [i \in 1..Len(bs) |->
       [bs[i] EXCEPT
          !.x = calculateNewPosition(bs[i].x, bs[i].y, bs[i].direction, bs[i].speed * delta).x,
          !.y = calculateNewPosition(bs[i].x, bs[i].y, bs[i].direction, bs[i].speed * delta).y]]

\* lines 408-421
updateBullets(bs, delta) ==
    LET moved == [i \in 1..Len(bs) |->
                    LET newPos == calculateNewPosition(bs[i].x, bs[i].y, bs[i].direction,
                                                       bs[i].speed * delta)
                    IN [bs[i] EXCEPT !.x = newPos.x, !.y = newPos.y]]
    IN SelectSeq(moved, InField)

\* variant: only the cell under the upper left corner of the bullet is visited
CellsUnderBulletCorner(b, cell, per) ==
    { Max(0, b.y \div U(cell)) * per + Max(0, b.x \div U(cell)) }

\* the grid cells (index set) the loops of handleBulletWallCollisions visit
CellsUnderBullet(b, cell, per) ==
    LET col1 == Max(0, b.x \div U(cell))
        col2 == Min(per - 1, (b.x + U(BULLET_SIZE)) \div U(cell))
        row1 == Max(0, b.y \div U(cell))
        row2 == Min(per - 1, (b.y + U(BULLET_SIZE)) \div U(cell))
    IN { row * per + col : row \in row1..row2, col \in col1..col2 }

\* handleBulletWallCollisions on m = [brokenBricks, brokenSteels, remove], bullets i..Len(bs)
RECURSIVE WallLoop(_, _, _)
WallLoop(m, bs, i) ==
    IF i > Len(bs) THEN m
    ELSE
      LET bullet == bs[i]
          bricksToDestroy == { k \in CellsUnderBullet(bullet, BRICK_SIZE, BRICKS_PER_ROW) :
                                 brickAt(m.brokenBricks, k) }
          steelsHit == { k \in CellsUnderBullet(bullet, STEEL_SIZE, STEELS_PER_ROW) :
                           steelAt(m.brokenSteels, k) }
          steelsToDestroy == IF bullet.power >= 3 THEN steelsHit ELSE {}
          bulletHit == bricksToDestroy # {} \/ steelsHit # {}
      IN WallLoop([brokenBricks |-> m.brokenBricks \cup bricksToDestroy,
                   brokenSteels |-> m.brokenSteels \cup steelsToDestroy,
                   remove |-> IF bulletHit THEN m.remove \cup {bullet.bulletId}
                                           ELSE m.remove],
                  bs, i + 1)

\* variant: the cells cleared in earlier ticks are bricks again
handleBulletWallCollisionsRebuilding(bs, brs, sts) ==
    LET m == WallLoop([brokenBricks |-> brs, brokenSteels |-> sts, remove |-> {}], bs, 1)
    IN [brokenBricks |-> m.brokenBricks \ brs,
        brokenSteels |-> m.brokenSteels,
        bullets |-> SelectSeq(bs, LAMBDA b : b.bulletId \notin m.remove)]

handleBulletWallCollisions(bs, brs, sts) ==
    LET m == WallLoop([brokenBricks |-> brs, brokenSteels |-> sts, remove |-> {}], bs, 1)
    IN [brokenBricks |-> m.brokenBricks,
        brokenSteels |-> m.brokenSteels,
        bullets |-> SelectSeq(bs, LAMBDA b : b.bulletId \notin m.remove)]

\* lines 541-544 and 550-553: the hit tank loses one hp and dies at 0
hurtTank(tank) ==
    [tank EXCEPT !.hp = tank.hp - 1,
                 !.alive = IF tank.hp - 1 <= 0 THEN FALSE ELSE tank.alive]

\* bulletsToRemove.push(bullet.bulletId), on h = [tanks, remove]
consume(h, bullet) == [h EXCEPT !.remove = h.remove \cup {bullet.bulletId}]

\* variant: a player's bullet hurts whatever tank it hits
playerBulletHitsAnyTank(h, j, bullet) ==
    [consume(h, bullet) EXCEPT !.tanks[j] = hurtTank(h.tanks[j])]

\* lines 534-546: a player's bullet on the tank at index j
playerBulletHits(h, j, bullet) ==
    IF h.tanks[j].side = "player"
      THEN consume(h, bullet)
      ELSE [consume(h, bullet) EXCEPT !.tanks[j] = hurtTank(h.tanks[j])]

\* variant: a bot's bullet is stopped by bot tanks, too
botBulletHitsAnyTank(h, j, bullet) ==
    IF h.tanks[j].side = "player"
      THEN IF h.tanks[j].helmetDuration <= 0
             THEN [consume(h, bullet) EXCEPT !.tanks[j] = hurtTank(h.tanks[j])]
             ELSE consume(h, bullet)
      ELSE consume(h, bullet)

\* variant: the helmet does not protect
botBulletHitsThroughHelmet(h, j, bullet) ==
    IF h.tanks[j].side = "player"
      THEN [consume(h, bullet) EXCEPT !.tanks[j] = hurtTank(h.tanks[j])]
      ELSE h

\* lines 547-559: a bot's bullet on the tank at index j
botBulletHits(h, j, bullet) ==
    IF h.tanks[j].side = "player"
      THEN IF h.tanks[j].helmetDuration <= 0
             THEN [consume(h, bullet) EXCEPT !.tanks[j] = hurtTank(h.tanks[j])]
             ELSE consume(h, bullet)
      ELSE h

\* the inner loop of handleBulletTankCollisions for one bullet, on
\* h = [tanks, remove], tanks j..Len(h.tanks)
RECURSIVE TankLoop(_, _, _, _)
TankLoop(h, bullet, sourceSide, j) ==
    IF j > Len(h.tanks) THEN h
    ELSE IF h.tanks[j].tankId = bullet.tankId \/ ~h.tanks[j].alive
      THEN TankLoop(h, bullet, sourceSide, j + 1)
    ELSE IF ~testCollision(bullet.x, bullet.y, U(BULLET_SIZE), U(BULLET_SIZE),
                           h.tanks[j].x, h.tanks[j].y, U(TANK_SIZE), U(TANK_SIZE), 0)
      THEN TankLoop(h, bullet, sourceSide, j + 1)
    ELSE IF sourceSide = "player"
      THEN TankLoop(playerBulletHits(h, j, bullet), bullet, sourceSide, j + 1)
    ELSE IF sourceSide = "bot"
      THEN TankLoop(botBulletHits(h, j, bullet), bullet, sourceSide, j + 1)
    ELSE TankLoop(h, bullet, sourceSide, j + 1)

RECURSIVE BulletLoop(_, _, _)
BulletLoop(h, bs, i) ==
    IF i > Len(bs) THEN h
    ELSE
      LET bullet == bs[i]
          src == FindTank(h.tanks, bullet.tankId)
          sourceSide == IF src = 0 THEN "player" ELSE h.tanks[src].side
      IN BulletLoop(TankLoop(h, bullet, sourceSide, 1), bs, i + 1)

handleBulletTankCollisions(bs, ts) ==
    LET h == BulletLoop([tanks |-> ts, remove |-> {}], bs, 1)
    IN [tanks |-> h.tanks,
        bullets |-> SelectSeq(bs, LAMBDA b : b.bulletId \notin h.remove)]

updateTankStates(ts, delta) ==
    [i \in 1..Len(ts) |->
       [ts[i] EXCEPT
          !.cooldown = IF @ > 0 THEN Max(0, @ - delta) ELSE @,
          !.helmetDuration = IF @ > 0 THEN Max(0, @ - delta) ELSE @,
          !.frozenTimeout = IF @ > 0 THEN Max(0, @ - delta) ELSE @]]

\* the end of tick(): what the four steps leave in the state
tickResult(s, w, c, delta) ==
    /\ tanks' = updateTankStates(c.tanks, delta)
    /\ bullets' = c.bullets
    /\ brokenBricks' = w.brokenBricks
    /\ brokenSteels' = w.brokenSteels
    /\ bulletIdCounter' = s.bid

\* handleCollisions: walls, then tanks
handleCollisions(s, w, delta) ==
    tickResult(s, w, handleBulletTankCollisions(w.bullets, s.tanks), delta)

\* variant: the bullets meet the tanks before they meet the walls
tickFromTanksFirst(s, delta) ==
    LET c == handleBulletTankCollisions(updateBullets(s.bullets, delta), s.tanks)
        w == handleBulletWallCollisions(c.bullets, brokenBricks, brokenSteels)
    IN tickResult(s, w, [tanks |-> c.tanks, bullets |-> w.bullets], delta)

\* lines 199-207 after updatePlayerTanks: updateBullets, handleCollisions, updateTankStates
tickFrom(s, delta) ==
    handleCollisions(s, handleBulletWallCollisions(updateBullets(s.bullets, delta),
                                                   brokenBricks, brokenSteels), delta)

\* tick(), with delta = now - lastTickTime; the interval calls it while it is set
tick(delta) ==
    /\ tickIntervals > 0
    /\ ticks' = ticks + 1
    /\ tickFrom(updatePlayerTanks([tanks |-> tanks, bullets |-> bullets,
                                   bid |-> bulletIdCounter], delta), delta)
    /\ UNCHANGED <<players, remainingBots, gameStatus, tickInterval, tickIntervals, tankIdCounter,
                   playerInputs, starts>>
    /\ UNCHANGED serverVars

\* getState(): the snapshot for broadcast (its timestamp, Date.now(), is left out)
getState ==
    [tanks |-> tanks,
     bullets |-> bullets,
     map |-> [bricks |-> bricks, steels |-> steels],
     players |-> players,
     remainingBots |-> remainingBots,
     gameStatus |-> gameStatus]

----------------------------------------------------------------------------
(* The socket gateway: src/server/src/index.ts with GameStateManager.ts.     *)
(* RoomManager, InputValidator and config are imported by index.ts; the      *)
(* model takes them from sections 4.4, 4.5 and 6 of the design document.     *)

MaxSockets == 3         \* connections explored
MaxRooms == 2           \* rooms created
MaxSessions == 3        \* session ids issued
MaxSpawnTicks == 1      \* firings of the 3 s spawn interval explored
BucketSize == 1         \* tokens of a full rate-limit bucket

maxPlayers == 2                 \* config.room.maxPlayers
ENEMY_QUEUE_LENGTH == 20        \* initializeEnemyQueue: 18 basic, 1 fast, 1 power
INITIAL_ENEMIES == 4            \* startEnemySpawnTimer: the initial spawns
NoQueue == -1                   \* roomEnemyCounters has no entry

Sockets == 1..MaxSockets
RoomIds == 1..MaxRooms
SessionIds == 1..MaxSessions

NoPlayer == [socketId |-> 0, sessionId |-> 0, status |-> "none"]
NoRoom == [status |-> "none", players |-> [role \in RoleSet |-> NoPlayer]]
NoData == [none |-> TRUE]

\* ---- RoomManager ----

RoomExists(rms, r) == r \in RoomIds /\ rms[r].status # "none"

PlayersOf(room) == { role \in RoleSet : room.players[role].sessionId # 0 }

\* getRoomIdBySocket: 0 stands for undefined
getRoomIdBySocket(rms, s) ==
    IF \E r \in RoomIds, role \in RoleSet : rms[r].players[role].socketId = s
      THEN CHOOSE r \in RoomIds : \E role \in RoleSet : rms[r].players[role].socketId = s
      ELSE 0

RoleOfSocket(room, s) == CHOOSE role \in RoleSet : room.players[role].socketId = s

createRoom(rms, r, s, sid) ==
    [rms EXCEPT ![r] =
       [status |-> "waiting",
        players |-> [role \in RoleSet |->
                       IF role = "host"
                         THEN [socketId |-> s, sessionId |-> sid, status |-> "connected"]
                         ELSE NoPlayer]]]

\* the error joinRoom answers with, "" when it succeeds
joinRoomError(rms, r) ==
    IF ~RoomExists(rms, r) THEN "room_not_found"
    ELSE IF Cardinality(PlayersOf(rms[r])) >= maxPlayers THEN "room_full"
    ELSE ""

joinRoom(rms, r, s, sid) ==
    [rms EXCEPT ![r].players["guest"] =
       [socketId |-> s, sessionId |-> sid, status |-> "connected"]]

\* leaveRoom(socketId): the slot goes, and the room with its last slot
removeSlot(rms, r, role) ==
    IF PlayersOf(rms[r]) = {role}
      THEN [rms EXCEPT ![r] = NoRoom]
      ELSE [rms EXCEPT ![r].players[role] = NoPlayer]

leaveRoom(rms, s) ==
    IF getRoomIdBySocket(rms, s) = 0 THEN rms
    ELSE removeSlot(rms, getRoomIdBySocket(rms, s),
                    RoleOfSocket(rms[getRoomIdBySocket(rms, s)], s))

updatePlayerStatus(rms, s, status) ==
    IF getRoomIdBySocket(rms, s) = 0 THEN rms
    ELSE [rms EXCEPT ![getRoomIdBySocket(rms, s)]
                        .players[RoleOfSocket(rms[getRoomIdBySocket(rms, s)], s)]
                        .status = status]

\* the room that holds the session, 0 when no slot holds it
RoomOfSession(rms, sid) ==
    IF \E r \in RoomIds, role \in RoleSet : rms[r].players[role].sessionId = sid
      THEN CHOOSE r \in RoomIds : \E role \in RoleSet : rms[r].players[role].sessionId = sid
      ELSE 0

RoleOfSession(room, sid) == CHOOSE role \in RoleSet : room.players[role].sessionId = sid

\* reconnect(sessionId, socketId): the error it answers with, "" when it succeeds
reconnectError(rms, sid) == IF RoomOfSession(rms, sid) = 0 THEN "room_not_found" ELSE ""

reconnect(rms, sid, s) ==
    [rms EXCEPT ![RoomOfSession(rms, sid)]
                   .players[RoleOfSession(rms[RoomOfSession(rms, sid)], sid)] =
       [socketId |-> s, sessionId |-> sid, status |-> "connected"]]

\* startGame(roomId) answers true for a room with both slots filled
canStartGame(rms, r) == RoomExists(rms, r) /\ Cardinality(PlayersOf(rms[r])) = maxPlayers

startGame(rms, r) == [rms EXCEPT ![r].status = "playing"]

endGame(rms, r) == IF RoomExists(rms, r) THEN [rms EXCEPT ![r].status = "finished"] ELSE rms

\* ---- InputValidator ----

validateInput(data) ==
    /\ data.type = "state"
    /\ data.direction \in Directions \cup {NoDirection}
    /\ data.moving \in BOOLEAN
    /\ data.firing \in BOOLEAN

\* checkRateLimit on a bucket with tok tokens
checkRateLimit(tok) == tok > 0

\* ---- GameStateManager ----

spawnPositions == << [x |-> 0, y |-> 0], [x |-> 192, y |-> 0], [x |-> 384, y |-> 0] >>

\* variant: the length of the queue is not looked at
hasNextEnemyUnbounded(counter) == counter # NoQueue

\* spawnNextEnemy answers null for a room without queue or with the queue used up
hasNextEnemy(counter) == counter # NoQueue /\ counter < ENEMY_QUEUE_LENGTH

\* the data of the enemy spawnNextEnemy makes at this counter (its level is the
\* queue's entry, which the shuffle of the room's seed decides)
enemyData(r, counter) ==
    [tankId |-> <<"bot", r, counter>>,
     x |-> spawnPositions[(counter % Len(spawnPositions)) + 1].x,
     y |-> spawnPositions[(counter % Len(spawnPositions)) + 1].y,
     withPowerUp |-> counter \in {3, 10, 17}]

generateInitialState(r) ==
    [mapId |-> 1,
     hostPosition |-> [x |-> 128, y |-> 384],
     guestPosition |-> [x |-> 256, y |-> 384],
     hostTankColor |-> "yellow",
     guestTankColor |-> "green"]

\* ---- socket.io ----

\* the sockets in the room roomId (a socket leaves its rooms when it disconnects)
members(io, r) == { s \in Sockets : r \in io[s] }

Emit(to, ev, type, data) == [to |-> to, ev |-> ev, type |-> type, data |-> data]

\* one emit to each socket of recipients
toEach(recipients, ev, type, data) ==
    SelectSeq([i \in 1..MaxSockets |-> Emit(i, ev, type, data)],
              LAMBDA e : e.to \in recipients)

\* socket.to(roomId): the room without the sender
toOthers(io, r, s) == members(io, r) \ {s}

\* what the last handler did: its name, socket, room, session and payload
Did(op, s, r, sid, arg) == [op |-> op, socket |-> s, room |-> r, session |-> sid, arg |-> arg]

\* the sockets a sequence of emits sends the event ev to
recipientsOf(emits, ev) == { emits[i].to : i \in { k \in 1..Len(emits) : emits[k].ev = ev } }

\* ---- the interval maps ----

\* a timer map with the live intervals of its kind: the keys and, per room id, the
\* intervals set and not cleared
spawnTimer == [map |-> enemySpawnTimers, live |-> spawnIntervals]
syncTimer == [map |-> stateSyncTimers, live |-> syncIntervals]

\* variant: the entry is deleted and its interval is left running
stopTimerForgetting(t, r) == [map |-> t.map \ {r}, live |-> t.live]

\* stopEnemySpawnTimer / stopStateSyncTimer: clearInterval on the entry, if there is one
stopTimer(t, r) ==
    IF r \in t.map THEN [map |-> t.map \ {r}, live |-> [t.live EXCEPT ![r] = @ - 1]]
                   ELSE t

\* startEnemySpawnTimer / startStateSyncTimer, the timer part: stop, setInterval, set
startTimer(t, r) ==
    [map |-> stopTimer(t, r).map \cup {r},
     live |-> [stopTimer(t, r).live EXCEPT ![r] = @ + 1]]

ServerInit ==
    /\ numSockets = 0
    /\ connected = {}
    /\ ioRooms = [s \in Sockets |-> {}]
    /\ rooms = [r \in RoomIds |-> NoRoom]
    /\ numRooms = 0
    /\ numSessions = 0
    /\ enemySpawnTimers = {}
    /\ spawnIntervals = [r \in RoomIds |-> 0]
    /\ stateSyncTimers = {}
    /\ syncIntervals = [r \in RoomIds |-> 0]
    /\ roomEnemyCounters = [r \in RoomIds |-> NoQueue]
    /\ reconnectTimeouts = << >>
    /\ tokens = [s \in Sockets |-> BucketSize]
    /\ spawnTicks = 0
    /\ emitted = << >>
    /\ last = Did("init", 0, 0, 0, NoData)
    /\ reachedTwo = {}
    /\ stoppedRooms = {}
    /\ expired = {}
    /\ rebound = {}

\* ---- io.on('connection') ----

Connect ==
    /\ numSockets < MaxSockets
    /\ numSockets' = numSockets + 1
    /\ connected' = connected \cup {numSockets + 1}
    /\ emitted' = << >>
    /\ last' = Did("connection", numSockets + 1, 0, 0, NoData)
    /\ UNCHANGED <<ioRooms, rooms, numRooms, numSessions, enemySpawnTimers, spawnIntervals, stateSyncTimers, syncIntervals,
                   roomEnemyCounters, reconnectTimeouts, tokens, spawnTicks, reachedTwo, stoppedRooms, expired, rebound>>
    /\ UNCHANGED <<engineVars, drawn, gsmVars, clientVars>>

\* ---- create_room ----

roomCreatedEmits(s, r, sid) ==
    << Emit(s, "room_created", "", [roomId |-> r, sessionId |-> sid, role |-> "host"]) >>

\* variant: a room that starts its game as it is created
CreateRoomAndStart(s) ==
    /\ s \in connected
    /\ getRoomIdBySocket(rooms, s) = 0
    /\ numRooms < MaxRooms
    /\ numSessions < MaxSessions
    /\ rooms' = createRoom(rooms, numRooms + 1, s, numSessions + 1)
    /\ numRooms' = numRooms + 1
    /\ numSessions' = numSessions + 1
    /\ ioRooms' = [ioRooms EXCEPT ![s] = @ \cup {numRooms + 1}]
    /\ emitted' = roomCreatedEmits(s, numRooms + 1, numSessions + 1)
                    \o toEach({s}, "game_start", "", NoData)
    /\ enemySpawnTimers' = startTimer(spawnTimer, numRooms + 1).map
    /\ spawnIntervals' = startTimer(spawnTimer, numRooms + 1).live
    /\ stateSyncTimers' = startTimer(syncTimer, numRooms + 1).map
    /\ syncIntervals' = startTimer(syncTimer, numRooms + 1).live
    /\ last' = Did("create_room", s, numRooms + 1, numSessions + 1, NoData)
    /\ UNCHANGED <<numSockets, connected, roomEnemyCounters, reconnectTimeouts, tokens,
                   spawnTicks, reachedTwo, stoppedRooms, expired, rebound>>
    /\ UNCHANGED <<engineVars, drawn, gsmVars, clientVars>>

CreateRoom(s) ==
    /\ s \in connected
    /\ getRoomIdBySocket(rooms, s) = 0
    /\ numRooms < MaxRooms
    /\ numSessions < MaxSessions
    /\ rooms' = createRoom(rooms, numRooms + 1, s, numSessions + 1)
    /\ numRooms' = numRooms + 1
    /\ numSessions' = numSessions + 1
    /\ ioRooms' = [ioRooms EXCEPT ![s] = @ \cup {numRooms + 1}]
    /\ emitted' = roomCreatedEmits(s, numRooms + 1, numSessions + 1)
    /\ last' = Did("create_room", s, numRooms + 1, numSessions + 1, NoData)
    /\ UNCHANGED <<numSockets, connected, enemySpawnTimers, spawnIntervals, stateSyncTimers, syncIntervals, roomEnemyCounters,
                   reconnectTimeouts, tokens, spawnTicks, reachedTwo, stoppedRooms,
                   expired, rebound>>
    /\ UNCHANGED <<engineVars, drawn, gsmVars, clientVars>>

\* ---- join_room ----

\* line 202: room && room.players.size === config.room.maxPlayers
roomIsComplete(rms, r) == RoomExists(rms, r) /\ Cardinality(PlayersOf(rms[r])) = maxPlayers

\* variant: game_state_init ahead of game_start
gameStartEmitsSwapped(recipients, r) ==
    toEach(recipients, "game_state_init", "", generateInitialState(r))
      \o toEach(recipients, "game_start", "", NoData)

\* lines 211-215
gameStartEmits(recipients, r) ==
    toEach(recipients, "game_start", "", NoData)
      \o toEach(recipients, "game_state_init", "", generateInitialState(r))

\* the loop of startEnemySpawnTimer (lines 60-69) from its i-th round on, on
\* q = [counter, emits]
RECURSIVE initialSpawns(_, _, _, _)
initialSpawns(q, recipients, r, i) ==
    IF i >= INITIAL_ENEMIES THEN q
    ELSE IF hasNextEnemy(q.counter)
      THEN initialSpawns([counter |-> q.counter + 1,
                          emits |-> q.emits \o toEach(recipients, "game_state_event",
                                                      "enemy_spawn", enemyData(r, q.counter))],
                         recipients, r, i + 1)
      ELSE initialSpawns(q, recipients, r, i + 1)

joinedEmits(io, s, r, sid) ==
    << Emit(s, "room_joined", "", [roomId |-> r, sessionId |-> sid, role |-> "guest"]) >>
      \o toEach(toOthers(io, r, s), "player_joined", "", [role |-> "guest"])

\* lines 204-221, with q the outcome of the initial spawns on the fresh queue
JoinStartsGame(s, r, sid, rms, io, q) ==
    /\ rooms' = startGame(rms, r)
    /\ roomEnemyCounters' = [roomEnemyCounters EXCEPT ![r] = q.counter]
    /\ enemySpawnTimers' = startTimer(spawnTimer, r).map
    /\ spawnIntervals' = startTimer(spawnTimer, r).live
    /\ stateSyncTimers' = startTimer(syncTimer, r).map
    /\ syncIntervals' = startTimer(syncTimer, r).live
    /\ emitted' = joinedEmits(io, s, r, sid) \o gameStartEmits(members(io, r), r) \o q.emits
    /\ stoppedRooms' = stoppedRooms \ {r}

JoinWaits(s, r, sid, rms, io) ==
    /\ rooms' = rms
    /\ emitted' = joinedEmits(io, s, r, sid)
    /\ UNCHANGED <<roomEnemyCounters, enemySpawnTimers, spawnIntervals, stateSyncTimers, syncIntervals, stoppedRooms>>

\* lines 185-225, after joinRoom has answered with a session: rms and io are the rooms
\* and the socket.io rooms with the joiner in
JoinAccepted(s, r, sid, rms, io) ==
    /\ ioRooms' = io
    /\ numSessions' = sid
    /\ reachedTwo' = IF Cardinality(PlayersOf(rms[r])) = maxPlayers
                       THEN reachedTwo \cup {r} ELSE reachedTwo
    /\ IF roomIsComplete(rms, r) /\ canStartGame(rms, r)
         THEN JoinStartsGame(s, r, sid, rms, io,
                             initialSpawns([counter |-> 0, emits |-> << >>],
                                           members(io, r), r, 0))
         ELSE JoinWaits(s, r, sid, rms, io)

\* lines 180-183
JoinRejected(s, r, error) ==
    /\ emitted' = << Emit(s, "room_error", error, NoData) >>
    /\ UNCHANGED <<ioRooms, rooms, numSessions, roomEnemyCounters, enemySpawnTimers, spawnIntervals,
                   stateSyncTimers, syncIntervals, reachedTwo, stoppedRooms>>

\* the rooms a client asks to join: none under that id, a host waiting for a guest,
\* or both players in and connected
JoinTarget(r) ==
    IF ~RoomExists(rooms, r) THEN TRUE
    ELSE IF PlayersOf(rooms[r]) = {"host"} THEN TRUE
    ELSE /\ PlayersOf(rooms[r]) = RoleSet
         /\ \A role \in RoleSet : rooms[r].players[role].status = "connected"

JoinRoom(s, r) ==
    /\ s \in connected
    /\ getRoomIdBySocket(rooms, s) = 0
    /\ JoinTarget(r)
    /\ IF joinRoomError(rooms, r) # ""
         THEN JoinRejected(s, r, joinRoomError(rooms, r))
         ELSE /\ numSessions < MaxSessions
              /\ JoinAccepted(s, r, numSessions + 1,
                              joinRoom(rooms, r, s, numSessions + 1),
                              [ioRooms EXCEPT ![s] = @ \cup {r}])
    /\ last' = Did("join_room", s, r, 0, NoData)
    /\ UNCHANGED <<numSockets, connected, numRooms, reconnectTimeouts, tokens, spawnTicks,
                   expired, rebound>>
    /\ UNCHANGED <<engineVars, drawn, gsmVars, clientVars>>

\* ---- leave_room ----

\* variant: io.to(roomId) in place of socket.to(roomId)
leaveEmitsToRoom(io, r, s) == toEach(members(io, r), "player_left", "", NoData)

\* line 252: socket.to(roomId).emit(PLAYER_LEFT)
leaveEmits(io, r, s) == toEach(toOthers(io, r, s), "player_left", "", NoData)

\* lines 242-258 for the room r of the socket
LeaveFrom(s, r) ==
    /\ enemySpawnTimers' = stopTimer(spawnTimer, r).map
    /\ spawnIntervals' = stopTimer(spawnTimer, r).live
    /\ stateSyncTimers' = stopTimer(syncTimer, r).map
    /\ syncIntervals' = stopTimer(syncTimer, r).live
    /\ roomEnemyCounters' = [roomEnemyCounters EXCEPT ![r] = NoQueue]
    /\ emitted' = leaveEmits(ioRooms, r, s)
    /\ ioRooms' = [ioRooms EXCEPT ![s] = @ \ {r}]
    /\ rooms' = leaveRoom(rooms, s)
    /\ stoppedRooms' = stoppedRooms \cup {r}

LeaveRoom(s) ==
    /\ s \in connected
    /\ IF getRoomIdBySocket(rooms, s) # 0
         THEN LeaveFrom(s, getRoomIdBySocket(rooms, s))
         ELSE /\ emitted' = << >>
              /\ UNCHANGED <<enemySpawnTimers, spawnIntervals, stateSyncTimers, syncIntervals, roomEnemyCounters, ioRooms,
                             rooms, stoppedRooms>>
    /\ last' = Did("leave_room", s, getRoomIdBySocket(rooms, s), 0, NoData)
    /\ UNCHANGED <<numSockets, connected, numRooms, numSessions, reconnectTimeouts, tokens,
                   spawnTicks, reachedTwo, expired, rebound>>
    /\ UNCHANGED <<engineVars, drawn, gsmVars, clientVars>>

\* ---- reconnect ----

\* line 275
reconnectFailedEmits(s, error) == << Emit(s, "reconnect_failed", error, NoData) >>

\* variant: io.to(roomId) in place of socket.to(roomId)
reconnectedEmitsToRoom(io, s, r, role) ==
    << Emit(s, "reconnect_success", "", [roomId |-> r, role |-> role]) >>
      \o toEach(members(io, r), "opponent_reconnected", "", NoData)

\* lines 285-291
reconnectedEmits(io, s, r, role) ==
    << Emit(s, "reconnect_success", "", [roomId |-> r, role |-> role]) >>
      \o toEach(toOthers(io, r, s), "opponent_reconnected", "", NoData)

\* lines 279-291, the session being that of the slot role of room r
ReconnectTo(s, sid, r, role, io) ==
    /\ rebound' = rebound \cup {[socketId |-> rooms[r].players[role].socketId, session |-> sid]}
    /\ rooms' = reconnect(rooms, sid, s)
    /\ ioRooms' = io
    /\ emitted' = reconnectedEmits(io, s, r, role)

\* the sessions a client reconnects with: one no slot holds, or that of a slot whose
\* socket has disconnected
ReconnectTarget(sid) ==
    IF RoomOfSession(rooms, sid) = 0 THEN TRUE
    ELSE rooms[RoomOfSession(rooms, sid)]
           .players[RoleOfSession(rooms[RoomOfSession(rooms, sid)], sid)].status = "disconnected"

Reconnect(s, sid) ==
    /\ s \in connected
    /\ getRoomIdBySocket(rooms, s) = 0
    /\ ReconnectTarget(sid)
    /\ IF reconnectError(rooms, sid) # ""
         THEN /\ emitted' = reconnectFailedEmits(s, reconnectError(rooms, sid))
              /\ UNCHANGED <<rebound, rooms, ioRooms>>
         ELSE ReconnectTo(s, sid, RoomOfSession(rooms, sid),
                          RoleOfSession(rooms[RoomOfSession(rooms, sid)], sid),
                          [ioRooms EXCEPT ![s] = @ \cup {RoomOfSession(rooms, sid)}])
    /\ last' = Did("reconnect", s, RoomOfSession(rooms, sid), sid, NoData)
    /\ UNCHANGED <<numSockets, connected, numRooms, numSessions, enemySpawnTimers, spawnIntervals,
                   stateSyncTimers, syncIntervals, roomEnemyCounters, reconnectTimeouts, tokens, spawnTicks,
                   reachedTwo, stoppedRooms, expired>>
    /\ UNCHANGED <<engineVars, drawn, gsmVars, clientVars>>

\* ---- player_input ----

\* variant: no rate limit
inputVerdictUnlimited(data, tok) == IF ~validateInput(data) THEN "invalid" ELSE "ok"

\* lines 313-330: what the handler makes of the input of a socket in a room
inputVerdict(data, tok) ==
    IF ~validateInput(data) THEN "invalid"
    ELSE IF ~checkRateLimit(tok) THEN "limited"
    ELSE "ok"

\* lines 315-318 and 325-328
inputErrorEmits(s) == << Emit(s, "room_error", "invalid_input", NoData) >>

\* lines 339-347
inputForwardEmits(io, s, r, data) ==
    toEach(toOthers(io, r, s), "opponent_input", "", data)
      \o (IF data.sequenceId # 0
            THEN << Emit(s, "input_ack", "", [sequenceId |-> data.sequenceId]) >>
            ELSE << >>)

PlayerInputIn(s, r, data, verdict) ==
    /\ emitted' = IF verdict = "ok" THEN inputForwardEmits(ioRooms, s, r, data)
                                    ELSE inputErrorEmits(s)
    /\ tokens' = IF verdict = "ok" THEN [tokens EXCEPT ![s] = @ - 1] ELSE tokens

\* the messages clients send as player_input: sequenceId 0 stands for none
InputMessages ==
    { [type |-> "state", direction |-> "up", moving |-> TRUE, firing |-> FALSE,
       sequenceId |-> 0],
      [type |-> "state", direction |-> NoDirection, moving |-> FALSE, firing |-> TRUE,
       sequenceId |-> 1],
      [type |-> "move", direction |-> "up", moving |-> TRUE, firing |-> FALSE,
       sequenceId |-> 0],
      [type |-> "state", direction |-> "north", moving |-> TRUE, firing |-> FALSE,
       sequenceId |-> 1] }

PlayerInput(s, data) ==
    /\ s \in connected
    /\ IF getRoomIdBySocket(rooms, s) = 0
         THEN /\ emitted' = << >>
              /\ UNCHANGED tokens
         ELSE PlayerInputIn(s, getRoomIdBySocket(rooms, s), data,
                            inputVerdict(data, tokens[s]))
    /\ last' = Did("player_input", s, getRoomIdBySocket(rooms, s), 0, data)
    /\ UNCHANGED <<numSockets, connected, ioRooms, rooms, numRooms, numSessions,
                   enemySpawnTimers, spawnIntervals, stateSyncTimers, syncIntervals, roomEnemyCounters, reconnectTimeouts,
                   spawnTicks, reachedTwo, stoppedRooms, expired, rebound>>
    /\ UNCHANGED <<engineVars, drawn, gsmVars, clientVars>>

\* the bucket of a socket fills up again as time passes
RefillTokens(s) ==
    /\ s \in connected
    /\ tokens[s] < BucketSize
    /\ tokens' = [tokens EXCEPT ![s] = BucketSize]
    /\ emitted' = << >>
    /\ last' = Did("refill", s, 0, 0, NoData)
    /\ UNCHANGED <<numSockets, connected, ioRooms, rooms, numRooms, numSessions,
                   enemySpawnTimers, spawnIntervals, stateSyncTimers, syncIntervals, roomEnemyCounters, reconnectTimeouts,
                   spawnTicks, reachedTwo, stoppedRooms, expired, rebound>>
    /\ UNCHANGED <<engineVars, drawn, gsmVars, clientVars>>

\* ---- game_state_event, game_over ----

GameStateEventTypes == {"tank_fire"}

GameStateEvent(s, type) ==
    /\ s \in connected
    /\ emitted' = IF getRoomIdBySocket(rooms, s) = 0 THEN << >>
                  ELSE toEach(members(ioRooms, getRoomIdBySocket(rooms, s)),
                              "game_state_event", type, NoData)
    /\ last' = Did("game_state_event", s, getRoomIdBySocket(rooms, s), 0, [type |-> type])
    /\ UNCHANGED <<numSockets, connected, ioRooms, rooms, numRooms, numSessions,
                   enemySpawnTimers, spawnIntervals, stateSyncTimers, syncIntervals, roomEnemyCounters, reconnectTimeouts,
                   tokens, spawnTicks, reachedTwo, stoppedRooms, expired, rebound>>
    /\ UNCHANGED <<engineVars, drawn, gsmVars, clientVars>>

GameOver(s) ==
    /\ s \in connected
    /\ IF getRoomIdBySocket(rooms, s) = 0
         THEN /\ emitted' = << >>
              /\ UNCHANGED rooms
         ELSE /\ rooms' = endGame(rooms, getRoomIdBySocket(rooms, s))
              /\ emitted' = toEach(members(ioRooms, getRoomIdBySocket(rooms, s)),
                                   "game_over", "", [winner |-> "draw"])
    /\ last' = Did("game_over", s, getRoomIdBySocket(rooms, s), 0, NoData)
    /\ UNCHANGED <<numSockets, connected, ioRooms, numRooms, numSessions, enemySpawnTimers, spawnIntervals,
                   stateSyncTimers, syncIntervals, roomEnemyCounters, reconnectTimeouts, tokens, spawnTicks,
                   reachedTwo, stoppedRooms, expired, rebound>>
    /\ UNCHANGED <<engineVars, drawn, gsmVars, clientVars>>

\* ---- disconnect and its 30 s timeout ----

\* variant: the slot is given up at once
disconnectedRoomsFreed(rms, s) == leaveRoom(rms, s)

\* line 422
disconnectedRooms(rms, s) == updatePlayerStatus(rms, s, "disconnected")

\* line 425
disconnectEmits(io, r, s) == toEach(toOthers(io, r, s), "opponent_disconnected", "", NoData)

Disconnect(s) ==
    /\ s \in connected
    /\ connected' = connected \ {s}
    /\ ioRooms' = [ioRooms EXCEPT ![s] = {}]
    /\ tokens' = [tokens EXCEPT ![s] = BucketSize]
    /\ IF getRoomIdBySocket(rooms, s) # 0
         THEN /\ rooms' = disconnectedRooms(rooms, s)
              /\ emitted' = disconnectEmits(ioRooms, getRoomIdBySocket(rooms, s), s)
              /\ reconnectTimeouts' =
                   Append(reconnectTimeouts,
                          [socketId |-> s, roomId |-> getRoomIdBySocket(rooms, s)])
         ELSE /\ emitted' = << >>
              /\ UNCHANGED <<rooms, reconnectTimeouts>>
    /\ last' = Did("disconnect", s, getRoomIdBySocket(rooms, s), 0, NoData)
    /\ UNCHANGED <<numSockets, numRooms, numSessions, enemySpawnTimers, spawnIntervals, stateSyncTimers, syncIntervals,
                   roomEnemyCounters, spawnTicks, reachedTwo, stoppedRooms,
                   expired, rebound>>
    /\ UNCHANGED <<engineVars, drawn, gsmVars, clientVars>>

\* variant: the status alone decides
stillDisconnectedAnySocket(player, socketId) == player.status = "disconnected"

\* line 433
stillDisconnected(player, socketId) ==
    player.socketId = socketId /\ player.status = "disconnected"

\* the condition of lines 429-433: the room is there and holds such a player
timeoutApplies(rms, t) ==
    /\ RoomExists(rms, t.roomId)
    /\ \E role \in RoleSet : stillDisconnected(rms[t.roomId].players[role], t.socketId)

\* variant: nobody is told
timeoutEmitsNone(io, r) == << >>

\* line 446: io.to(roomId).emit(PLAYER_LEFT)
timeoutEmits(io, r) == toEach(members(io, r), "player_left", "", NoData)

\* lines 434-446
TimeoutRemoves(t) ==
    /\ enemySpawnTimers' = stopTimer(spawnTimer, t.roomId).map
    /\ spawnIntervals' = stopTimer(spawnTimer, t.roomId).live
    /\ stateSyncTimers' = stopTimer(syncTimer, t.roomId).map
    /\ syncIntervals' = stopTimer(syncTimer, t.roomId).live
    /\ roomEnemyCounters' = [roomEnemyCounters EXCEPT ![t.roomId] = NoQueue]
    /\ rooms' = leaveRoom(rooms, t.socketId)
    /\ emitted' = timeoutEmits(ioRooms, t.roomId)
    /\ stoppedRooms' = stoppedRooms \cup {t.roomId}
    /\ expired' = expired \cup
                    { [session |-> rooms[t.roomId].players[role].sessionId,
                       peers |-> { rooms[t.roomId].players[other].socketId :
                                     other \in { ro \in RoleSet :
                                       rooms[t.roomId].players[ro].status = "connected" } },
                       notified |-> recipientsOf(emitted', "player_left")] :
                        role \in { ro \in RoleSet :
                                     rooms[t.roomId].players[ro].socketId = t.socketId } }

\* the timeouts all wait reconnectTimeout, so they fire in the order they were set
ReconnectTimeout ==
    /\ reconnectTimeouts # << >>
    /\ reconnectTimeouts' = Tail(reconnectTimeouts)
    /\ IF timeoutApplies(rooms, Head(reconnectTimeouts))
         THEN TimeoutRemoves(Head(reconnectTimeouts))
         ELSE /\ emitted' = << >>
              /\ UNCHANGED <<enemySpawnTimers, spawnIntervals, stateSyncTimers, syncIntervals, roomEnemyCounters, rooms,
                             stoppedRooms, expired>>
    /\ last' = Did("timeout", Head(reconnectTimeouts).socketId,
                   Head(reconnectTimeouts).roomId, 0, NoData)
    /\ UNCHANGED <<numSockets, connected, ioRooms, numRooms, numSessions, tokens, spawnTicks,
                   reachedTwo, rebound>>
    /\ UNCHANGED <<engineVars, drawn, gsmVars, clientVars>>

\* ---- the intervals of startEnemySpawnTimer and startStateSyncTimer ----

\* variant: the status of the room is not looked at
roomIsThere(rms, r) == RoomExists(rms, r)

\* lines 73-74 and 115-116
roomIsPlaying(rms, r) == RoomExists(rms, r) /\ rms[r].status = "playing"

\* lines 71-93: the callback of the spawn interval of the room r
spawnTimerFires(r) ==
    /\ spawnIntervals[r] > 0
    /\ IF roomIsPlaying(rooms, r) /\ hasNextEnemy(roomEnemyCounters[r])
         THEN /\ emitted' = toEach(members(ioRooms, r), "game_state_event", "enemy_spawn",
                                   enemyData(r, roomEnemyCounters[r]))
              /\ roomEnemyCounters' = [roomEnemyCounters EXCEPT ![r] = @ + 1]
              /\ UNCHANGED <<enemySpawnTimers, spawnIntervals>>
         ELSE /\ emitted' = << >>
              /\ enemySpawnTimers' = stopTimer(spawnTimer, r).map
              /\ spawnIntervals' = stopTimer(spawnTimer, r).live
              /\ UNCHANGED roomEnemyCounters
    /\ last' = Did("spawn_tick", 0, r, 0, NoData)
    /\ UNCHANGED <<numSockets, connected, ioRooms, rooms, numRooms, numSessions,
                   stateSyncTimers, syncIntervals, reconnectTimeouts, tokens, reachedTwo, stoppedRooms,
                   expired, rebound>>
    /\ UNCHANGED <<engineVars, drawn, gsmVars, clientVars>>

\* a firing of the interval, counted
EnemySpawnTick(r) ==
    /\ spawnTicks < MaxSpawnTicks
    /\ spawnTicks' = spawnTicks + 1
    /\ spawnTimerFires(r)

\* a firing of the interval
EnemySpawnFiring(r) == spawnTimerFires(r) /\ UNCHANGED spawnTicks

StateSyncTick(r) ==
    /\ syncIntervals[r] > 0
    /\ IF roomIsPlaying(rooms, r)
         THEN /\ emitted' = toEach(members(ioRooms, r), "state_sync", "",
                                   [requestSnapshot |-> TRUE])
              /\ UNCHANGED <<stateSyncTimers, syncIntervals>>
         ELSE /\ emitted' = << >>
              /\ stateSyncTimers' = stopTimer(syncTimer, r).map
              /\ syncIntervals' = stopTimer(syncTimer, r).live
    /\ last' = Did("sync_tick", 0, r, 0, NoData)
    /\ UNCHANGED <<numSockets, connected, ioRooms, rooms, numRooms, numSessions,
                   enemySpawnTimers, spawnIntervals, roomEnemyCounters, reconnectTimeouts, tokens, spawnTicks,
                   reachedTwo, stoppedRooms, expired, rebound>>
    /\ UNCHANGED <<engineVars, drawn, gsmVars, clientVars>>

\* the handlers that decide over rooms, slots and timers
ServerNext ==
    \/ Connect
    \/ \E s \in Sockets : CreateRoom(s)
    \/ \E s \in Sockets, r \in RoomIds : JoinRoom(s, r)
    \/ \E s \in Sockets : LeaveRoom(s)
    \/ \E s \in Sockets, sid \in SessionIds : Reconnect(s, sid)
    \/ \E s \in Sockets : GameOver(s)
    \/ \E s \in Sockets : Disconnect(s)
    \/ ReconnectTimeout
    \/ \E r \in RoomIds : EnemySpawnTick(r)
    \/ \E r \in RoomIds : StateSyncTick(r)

\* the handlers of the in-game traffic, on rooms that clients create, join and leave
TrafficNext ==
    \/ Connect
    \/ \E s \in Sockets : CreateRoom(s)
    \/ \E s \in Sockets, r \in RoomIds : JoinRoom(s, r)
    \/ \E s \in Sockets : LeaveRoom(s)
    \/ \E s \in Sockets : Disconnect(s)
    \/ \E s \in Sockets, data \in InputMessages : PlayerInput(s, data)
    \/ \E s \in Sockets : RefillTokens(s)
    \/ \E s \in Sockets, type \in GameStateEventTypes : GameStateEvent(s, type)

----------------------------------------------------------------------------
(* GameStateManager.ts: the enemy queues of two managers, on room codes.     *)
(* A room code is the sequence of the char codes of its six letters. The     *)
(* numbers of the code are JavaScript doubles holding integers below 2^53,   *)
(* so (hash << 5) - hash + char followed by hash & hash is 31 * hash + char  *)
(* modulo 2^32; it is computed here on two 16 bit halves. The shuffle reads  *)
(* its seed only through (random * 9301 + 49297) % 233280, computed here     *)
(* with the factor 9301 taken as 93 * 100 + 1.                               *)

MaxClock == 1           \* steps of Date.now() explored
MaxSpawned == 1         \* spawns explored in each queue

Managers == {"one", "other"}

\* "AAAAAA" (the hash stays below 2^31), "ZZZZZZ" (the hash wraps), "QXKBMT"
RoomCodes ==
    { <<65, 65, 65, 65, 65, 65>>, <<90, 90, 90, 90, 90, 90>>, <<81, 88, 75, 66, 77, 84>> }

Half == 65536
LCG_MODULUS == 233280

NoEntry == [queue |-> << >>, counter |-> NoQueue]

\* lines 52-56: 18 basic, then fast, then power
enemyQueue ==
    [i \in 1..ENEMY_QUEUE_LENGTH |-> IF i <= 18 THEN "basic" ELSE IF i = 19 THEN "fast" ELSE "power"]

\* lines 195-196 on hash = [hi, lo], the 32 bits of the int32: 31 * hash + char, as 32 bits
hashStep(hash, char) ==
    [lo |-> (31 * hash.lo + char) % Half,
     hi |-> (31 * hash.hi + ((31 * hash.lo + char) \div Half)) % Half]

RECURSIVE hashFrom(_, _, _)
hashFrom(hash, roomId, i) ==
    IF i > Len(roomId) THEN hash ELSE hashFrom(hashStep(hash, roomId[i]), roomId, i + 1)

\* Math.abs of the int32 with the bits [hi, lo], as [hi, lo] of a number up to 2^31
abs32(hash) ==
    IF hash.hi < Half \div 2 THEN hash
    ELSE IF hash.lo = 0 THEN [hi |-> Half - hash.hi, lo |-> 0]
    ELSE [hi |-> Half - 1 - hash.hi, lo |-> Half - hash.lo]

\* variant: the seed is taken from the room id and the current time
generateSeedWithTime(roomId) ==
    abs32(hashStep(hashFrom([hi |-> 0, lo |-> 0], roomId, 1), clock))

generateSeed(roomId) == abs32(hashFrom([hi |-> 0, lo |-> 0], roomId, 1))

\* seed % 233280 for seed = hi * 65536 + lo
seedResidue(seed) == ((((seed.hi * 256) % LCG_MODULUS) * 256) + seed.lo) % LCG_MODULUS

\* line 139 on random < 233280: (random * 9301 + 49297) % 233280
seededRandom(random) ==
    ((((random * 93) % LCG_MODULUS) * 100) + random + 49297) % LCG_MODULUS

\* variant: the entry at j is copied over the entry at i
swapOver(array, i, j) ==
    [array EXCEPT ![i + 1] = array[j + 1]]

\* line 145: the entries at the 0-based positions i and j change places
swap(array, i, j) ==
    [array EXCEPT ![i + 1] = array[j + 1], ![j + 1] = array[i + 1]]

\* lines 143-146 from the 0-based position i down to 1; j is
\* Math.floor(random / 233280 * (i + 1))
RECURSIVE shuffleFrom(_, _, _)
shuffleFrom(array, random, i) ==
    IF i <= 0 THEN array
    ELSE shuffleFrom(swap(array, i, (seededRandom(random) * (i + 1)) \div LCG_MODULUS),
                     seededRandom(random), i - 1)

shuffleArray(array, seed) == shuffleFrom(array, seedResidue(seed), Len(array) - 1)

\* no queue has been set up for a seed
NoTrial == [seed |-> [hi |-> 0, lo |-> 0], queue |-> << >>, counter |-> NoQueue, spawned |-> << >>]

GsmInit ==
    /\ managers = [m \in Managers |-> [roomId \in RoomCodes |-> NoEntry]]
    /\ clock = 0
    /\ trial = NoTrial

\* lines 50-66
InitializeEnemyQueue(m, roomId) ==
    /\ managers' = [managers EXCEPT ![m][roomId] =
                      [queue |-> shuffleArray(enemyQueue, generateSeed(roomId)), counter |-> 0]]
    /\ UNCHANGED <<clock, trial, engineVars, serverVars, drawn, clientVars>>

\* lines 73-102, when there is a next enemy
SpawnNextEnemy(m, roomId) ==
    /\ managers[m][roomId] # NoEntry
    /\ managers[m][roomId].counter < Len(managers[m][roomId].queue)
    /\ managers[m][roomId].counter < MaxSpawned
    /\ managers' = [managers EXCEPT ![m][roomId].counter = @ + 1]
    /\ UNCHANGED <<clock, trial, engineVars, serverVars, drawn, clientVars>>

\* lines 124-128
ClearEnemyQueue(m, roomId) ==
    /\ managers[m][roomId] # NoEntry
    /\ managers' = [managers EXCEPT ![m][roomId] = NoEntry]
    /\ UNCHANGED <<clock, trial, engineVars, serverVars, drawn, clientVars>>

\* lines 81-95: the data of the enemy spawnNextEnemy makes from the queue at the counter
enemySpawnData(queue, counter) ==
    [index |-> counter,
     x |-> spawnPositions[(counter % Len(spawnPositions)) + 1].x,
     y |-> spawnPositions[(counter % Len(spawnPositions)) + 1].y,
     level |-> queue[counter + 1],
     hp |-> IF queue[counter + 1] = "armor" THEN 4 ELSE 1,
     withPowerUp |-> counter \in {3, 10, 17}]

MaxSeedHi == 3          \* the seeds explored are hi * 65536 + lo with hi up to this
MaxSeedLo == 8191       \* and lo up to this
MaxTrialSpawned == 4    \* spawns explored from the queue of a seed

\* the seeds generateSeed gives the room ids explored: the shuffle reads its seed
\* modulo 233280
TrialSeeds == { [hi |-> h, lo |-> l] : h \in 0..MaxSeedHi, l \in 0..MaxSeedLo }

\* lines 50-66 for a room id whose generateSeed is trial.seed
InitializeTrial ==
    /\ trial' = [trial EXCEPT !.queue = shuffleArray(enemyQueue, trial.seed), !.counter = 0,
                              !.spawned = << >>]
    /\ UNCHANGED <<managers, clock, engineVars, serverVars, drawn, clientVars>>

\* lines 73-102 for that room id, when there is a next enemy
SpawnTrial ==
    /\ trial.counter # NoQueue
    /\ trial.counter < Len(trial.queue)
    /\ trial.counter < MaxTrialSpawned
    /\ trial' = [trial EXCEPT !.counter = @ + 1,
                              !.spawned = <<enemySpawnData(trial.queue, trial.counter)>>]
    /\ UNCHANGED <<managers, clock, engineVars, serverVars, drawn, clientVars>>

\* Date.now() moves on
Elapse ==
    /\ clock < MaxClock
    /\ clock' = clock + 1
    /\ UNCHANGED <<managers, trial, engineVars, serverVars, drawn, clientVars>>

----------------------------------------------------------------------------
(* The client: multiplayerGameSaga.ts.  predictedPosition, lastServerState   *)
(* and localInputState are variables of the module; the tank is the local    *)
(* player's tank in the store.  Coordinates are in model units; a product    *)
(* with INTERPOLATION_FACTOR is cut to the model unit.  The session is one   *)
(* that multiplayerGameSaga has started: multiplayer.enabled is set and      *)
(* roomInfo has a role, and the local player's tank is alive in the store.   *)

POSITION_CORRECTION_THRESHOLD == 2 * Scale     \* 2.0
CONVERGE_THRESHOLD == Scale \div 10            \* 0.1, line 250

\* predictedPosition and lastServerState are null
NoPos == [x |-> -1, y |-> -1]

\* d * INTERPOLATION_FACTOR, with INTERPOLATION_FACTOR = 0.3
interpolate(d) == IF d >= 0 THEN (d * 3) \div 10 ELSE -(((-d) * 3) \div 10)

\* Math.sqrt(dx * dx + dy * dy) > threshold
distanceAbove(dx, dy, threshold) ==
    \/ dx > threshold \/ -dx > threshold
    \/ dy > threshold \/ -dy > threshold
    \/ dx * dx + dy * dy > threshold * threshold

\* lines 170-183: calculateNewPosition of the client
clientNewPosition(x, y, direction, distance) ==
    CASE direction = "up" -> [x |-> x, y |-> Max(0, y - distance)]
      [] direction = "down" -> [x |-> x, y |-> Min(U(FIELD_SIZE - TANK_SIZE), y + distance)]
      [] direction = "left" -> [x |-> Max(0, x - distance), y |-> y]
      [] direction = "right" -> [x |-> Min(U(FIELD_SIZE - TANK_SIZE), x + distance), y |-> y]
      [] OTHER -> [x |-> x, y |-> y]

\* lines 252-253 and 356-357: from the position a step of the factor towards to
towards(from, to) ==
    [x |-> from.x + interpolate(to.x - from.x), y |-> from.y + interpolate(to.y - from.y)]

\* lines 351-360: the predicted position after a snapshot with the tank at the position
correctPrediction(predicted, server) ==
    IF distanceAbove(server.x - predicted.x, server.y - predicted.y, POSITION_CORRECTION_THRESHOLD)
      THEN towards(predicted, server)
      ELSE predicted

\* the session of a client whose tank the server has at the place
PredictionStart(authority) ==
    [direction |-> NoDirection, moving |-> FALSE,
     predicted |-> NoPos, server |-> NoPos,
     tank |-> authority, authority |-> authority]

\* updateLocalInput, lines 145-151
UpdateLocalInput(direction, moving) ==
    /\ prediction' = [prediction EXCEPT !.direction = direction, !.moving = moving]
    /\ UNCHANGED <<lobby, service, engineVars, serverVars, drawn, gsmVars>>

\* lines 193-262: one round of localPlayerPrediction, with delta = now - lastTickTime;
\* the tank that line 239 and line 255 put in the store is the one read at line 208
LocalPlayerPrediction(delta) ==
    LET p == prediction
        start == IF p.predicted = NoPos THEN [x |-> p.tank.x, y |-> p.tank.y] ELSE p.predicted
        turned == IF p.direction # NoDirection /\ p.direction # p.tank.direction
                    THEN [p.tank EXCEPT !.direction = p.direction]
                    ELSE p.tank
        newPos == clientNewPosition(start.x, start.y, p.direction, TANK_SPEED_player * delta)
        closer == towards(start, p.server)
    IN /\ prediction' =
            IF p.moving /\ p.direction # NoDirection
              THEN [p EXCEPT !.predicted = newPos,
                             !.tank = [p.tank EXCEPT !.x = newPos.x, !.y = newPos.y]]
            ELSE IF /\ p.server # NoPos
                    /\ distanceAbove(p.server.x - start.x, p.server.y - start.y, CONVERGE_THRESHOLD)
              THEN [p EXCEPT !.predicted = closer,
                             !.tank = [p.tank EXCEPT !.x = closer.x, !.y = closer.y]]
            ELSE [p EXCEPT !.predicted = start, !.tank = turned]
       /\ UNCHANGED <<lobby, service, engineVars, serverVars, drawn, gsmVars>>

\* lines 319-389 for the local player's tank, which is in the store: applyServerState
\* with a snapshot that has the tank at the place
ApplyServerState(tankData) ==
    LET p == prediction
    IN /\ prediction' =
            IF p.moving
              THEN [p EXCEPT !.server = [x |-> tankData.x, y |-> tankData.y],
                             !.predicted = IF p.predicted # NoPos
                                             THEN correctPrediction(p.predicted, tankData)
                                             ELSE p.predicted,
                             !.tank = [p.tank EXCEPT !.direction = tankData.direction]]
              ELSE [p EXCEPT !.tank = tankData]
       /\ UNCHANGED <<lobby, service, engineVars, serverVars, drawn, gsmVars>>

\* roomInfo is null
NoInfo == [roomId |-> 0, sessionId |-> 0]

\* the multiplayer record of the reducer at its defaults (main.tsx 76-114), with the lobby
\* saga (one of the two that the sources have) waiting for EnableMultiplayer
LobbyStart(saga) ==
    [saga |-> saga, at |-> "EnableMultiplayer", i |-> 0,
     enabled |-> FALSE, roomInfo |-> NoInfo, gameInitialState |-> FALSE,
     opponentConnected |-> FALSE, isCountingDown |-> FALSE, countdown |-> 0,
     log |-> << >>, events |-> 0, infos |-> 0]

\* SocketService.ts 17-27: a service that has not connected
ServiceStart ==
    [socket |-> "null", connectionStatus |-> "disconnected", roomInfo |-> NoInfo,
     sent |-> << >>, left |-> {}]

----------------------------------------------------------------------------
(* The client: the multiplayer record of the store (main.tsx 76-114), the    *)
(* lobby saga, SocketService.ts and the handlers of MultiplayerLobby.tsx.    *)
(* The sources hold two lobby sagas with the same default export,            *)
(* multiplayerLobbySaga.ts with watchGameInitialState and part_005 with      *)
(* watchOpponentConnection; a build has one of them, lobby.saga says which.  *)
(* An action of the store is [type, arg]; arg is 1 for a room info, an       *)
(* initial state or connected = true, 0 for null or false, the number of a   *)
(* room info or of an UpdateCountdown.  lobby.at is the effect the saga waits at.  A      *)
(* handler and what the saga does until it waits again are one step.         *)

MaxClientEvents == 6    \* handlers of the component and events of the socket explored

TheAction(type, arg) == [type |-> type, arg |-> arg]

\* the RoomInfo of the n-th room_created or room_joined the client receives
InfoOf(n) == [roomId |-> n, sessionId |-> n]

\* main.tsx 76-114 on the fields of the record that the lobby saga reads and writes
reducer(l, action) ==
    CASE action.type = "EnableMultiplayer" -> [l EXCEPT !.enabled = TRUE]
      [] action.type = "DisableMultiplayer" ->
           [l EXCEPT !.enabled = FALSE, !.roomInfo = NoInfo, !.gameInitialState = FALSE,
                     !.opponentConnected = FALSE, !.isCountingDown = FALSE, !.countdown = 0]
      [] action.type = "SetRoomInfo" ->
           [l EXCEPT !.roomInfo = IF action.arg = 0 THEN NoInfo ELSE InfoOf(action.arg)]
      [] action.type = "SetGameInitialState" -> [l EXCEPT !.gameInitialState = (action.arg # 0)]
      [] action.type = "SetOpponentConnected" -> [l EXCEPT !.opponentConnected = (action.arg # 0)]
      [] action.type = "StartGameCountdown" -> [l EXCEPT !.isCountingDown = TRUE, !.countdown = 3]
      [] action.type = "CancelGameCountdown" -> [l EXCEPT !.isCountingDown = FALSE, !.countdown = 0]
      [] action.type = "UpdateCountdown" -> [l EXCEPT !.countdown = action.arg]
      [] action.type = "MultiplayerGameStart" -> [l EXCEPT !.isCountingDown = FALSE, !.countdown = 0]
      [] OTHER -> l

\* an action reaches the store: the reducer runs and the action is on record
stored(l, action) == [reducer(l, action) EXCEPT !.log = Append(@, action)]

\* put of the lobby saga: the saga runs on, it waits for none of the actions it puts
RECURSIVE putAll(_, _)
putAll(l, actions) ==
    IF actions = << >> THEN l ELSE putAll(stored(l, Head(actions)), Tail(actions))

\* the action the saga takes in its loop
TakenBy(saga) ==
    IF saga = "watchGameInitialState" THEN "SetGameInitialState" ELSE "SetOpponentConnected"

\* the actions that the race of the saga takes as cancel
CancelledBy(saga) ==
    IF saga = "watchGameInitialState"
      THEN {"DisableMultiplayer", "SetRoomInfo"}
      ELSE {"SetOpponentConnected", "DisableMultiplayer", "SetRoomInfo"}

\* multiplayerLobbySaga.ts 35-38 and 62-64: the countdown starts and the saga is at the
\* first delay
startCountdown(l, first) ==
    [putAll(l, first \o <<TheAction("StartGameCountdown", 0), TheAction("UpdateCountdown", 3)>>)
       EXCEPT !.at = "delay", !.i = 3]

\* multiplayerLobbySaga.ts 19-32: watchGameInitialState has taken SetGameInitialState
watchGameInitialState(l) ==
    IF ~l.gameInitialState \/ l.roomInfo = NoInfo THEN l
    ELSE startCountdown(l, <<TheAction("SetOpponentConnected", 1)>>)

\* part_005 19-38: watchOpponentConnection has taken SetOpponentConnected
watchOpponentConnection(l, action) ==
    IF action.arg = 0 THEN stored(l, TheAction("CancelGameCountdown", 0))
    ELSE IF l.opponentConnected /\ l.roomInfo # NoInfo THEN startCountdown(l, << >>)
    ELSE l

\* what the saga does when the action has reached the store.  The take of the race in
\* multiplayerLobbySaga (lines 80-83) is older than the take of the race of the
\* countdown: on DisableMultiplayer it is served first and cancels the saga before
\* line 41 is reached
sagaOn(l, action) ==
    IF l.at = "EnableMultiplayer"
      THEN IF action.type = "EnableMultiplayer" THEN [l EXCEPT !.at = TakenBy(l.saga)] ELSE l
    ELSE IF action.type = "DisableMultiplayer"
      THEN [l EXCEPT !.at = "EnableMultiplayer", !.i = 0]
    ELSE IF l.at = "delay"
      THEN IF action.type \in CancelledBy(l.saga)
             THEN [stored(l, TheAction("CancelGameCountdown", 0))
                     EXCEPT !.at = TakenBy(l.saga), !.i = 0]
             ELSE l
    ELSE IF action.type # TakenBy(l.saga) THEN l
    ELSE IF l.saga = "watchGameInitialState" THEN watchGameInitialState(l)
    ELSE watchOpponentConnection(l, action)

\* dispatch of the store: the reducer, then the saga
dispatch(l, action) == sagaOn(stored(l, action), action)

RECURSIVE dispatchAll(_, _)
dispatchAll(l, actions) ==
    IF actions = << >> THEN l ELSE dispatchAll(dispatch(l, Head(actions)), Tail(actions))

\* variant: the game starts when the first delay of the countdown is over
afterDelayAtOnce(l) ==
    [putAll(l, <<TheAction("UpdateCountdown", 0), TheAction("MultiplayerGameStart", 0),
                 TheAction("StartGame", 0), TheAction("push", 0)>>)
       EXCEPT !.at = TakenBy(l.saga), !.i = 0]

\* multiplayerLobbySaga.ts 62-68 and 44-52: a delay of the countdown is over
afterDelay(l) ==
    IF l.i - 1 > 0
      THEN [stored(l, TheAction("UpdateCountdown", l.i - 1)) EXCEPT !.i = l.i - 1]
      ELSE [putAll(l, <<TheAction("UpdateCountdown", 0), TheAction("MultiplayerGameStart", 0),
                        TheAction("StartGame", 0), TheAction("push", 0)>>)
              EXCEPT !.at = TakenBy(l.saga), !.i = 0]

\* SocketService.ts 32-48: connect()
serviceConnect(s) ==
    IF s.socket = "connected" THEN s
    ELSE [s EXCEPT !.connectionStatus = "connecting", !.socket = "connecting"]

\* SocketService.ts 53-61: disconnect()
serviceDisconnect(s) ==
    [s EXCEPT !.socket = "null", !.connectionStatus = "disconnected", !.roomInfo = NoInfo]

\* SocketService.ts 234-241: leaveRoom()
serviceLeaveRoom(s) ==
    IF s.socket # "connected" THEN s
    ELSE [s EXCEPT !.sent = Append(@, [event |-> "leave_room", sessionId |-> 0]),
                   !.roomInfo = NoInfo]

\* SocketService.ts 246-252: attemptReconnect(sessionId)
attemptReconnect(s, sessionId) ==
    IF s.socket # "connected" THEN s
    ELSE [s EXCEPT !.sent = Append(@, [event |-> "reconnect", sessionId |-> sessionId])]

\* SocketService.ts 100-110: the handler of 'reconnect', the socket being connected again
onReconnect(s) ==
    LET c == [s EXCEPT !.socket = "connected", !.connectionStatus = "connected"]
    IN IF c.roomInfo # NoInfo THEN attemptReconnect(c, c.roomInfo.sessionId) ELSE c

\* the session the service has room info of, if any, is on record as left, with the
\* number of messages sent before
leaving(s, t) ==
    IF s.roomInfo = NoInfo THEN t
    ELSE [t EXCEPT !.left = @ \cup {[sessionId |-> s.roomInfo.sessionId, at |-> Len(t.sent)]}]

\* a handler of the component or an event of the socket, counted
ClientEvent(l, s) ==
    /\ lobby.events < MaxClientEvents
    /\ lobby' = [l EXCEPT !.events = lobby.events + 1]
    /\ service' = s
    /\ UNCHANGED <<prediction, engineVars, serverVars, drawn, gsmVars>>

\* MultiplayerLobby.tsx 32-37: the lobby is mounted
Mount ==
    /\ ~lobby.enabled
    /\ ClientEvent(dispatch(lobby, TheAction("EnableMultiplayer", 0)), serviceConnect(service))

\* MultiplayerLobby.tsx 89-102: the lobby is unmounted
Unmount ==
    /\ lobby.enabled
    /\ ClientEvent(dispatch(lobby, TheAction("DisableMultiplayer", 0)),
                   leaving(service, serviceDisconnect(service)))

\* MultiplayerLobby.tsx 40-42: the handler of status_change, which is registered while
\* the lobby is mounted
statusChanged(l) == IF l.enabled THEN dispatch(l, TheAction("SetConnectionStatus", 0)) ELSE l

\* SocketService.ts 69-74: 'connect'
OnConnect ==
    /\ service.socket = "connecting"
    /\ ClientEvent(statusChanged(lobby), [service EXCEPT !.socket = "connected", !.connectionStatus = "connected"])

\* SocketService.ts 77-81: 'disconnect', the transport being lost
OnDisconnect ==
    /\ service.socket = "connected"
    /\ ClientEvent(statusChanged(lobby), [service EXCEPT !.socket = "lost", !.connectionStatus = "disconnected"])

\* SocketService.ts 100-110: 'reconnect'
OnReconnect ==
    /\ service.socket = "lost"
    /\ ClientEvent(statusChanged(lobby), onReconnect(service))

\* room_created or room_joined with the next RoomInfo: SocketService.ts 113-125,
\* MultiplayerLobby.tsx 45-57
OnRoom(joined) ==
    /\ service.socket = "connected"
    /\ ClientEvent([dispatchAll(lobby, <<TheAction("SetRoomInfo", lobby.infos + 1),
                                         TheAction("SetMultiplayerError", 0)>>
                                         \o IF joined THEN <<TheAction("SetOpponentConnected", 1)>>
                                                      ELSE << >>)
                      EXCEPT !.infos = lobby.infos + 1],
                   [service EXCEPT !.roomInfo = InfoOf(lobby.infos + 1)])

\* player_joined and player_left: MultiplayerLobby.tsx 66-74
OnPlayer(joined) ==
    /\ service.socket = "connected"
    /\ ClientEvent(dispatch(lobby, TheAction("SetOpponentConnected", IF joined THEN 1 ELSE 0)),
                   service)

\* game_state_init: MultiplayerLobby.tsx 76-79
OnGameStateInit ==
    /\ service.socket = "connected"
    /\ ClientEvent(dispatch(lobby, TheAction("SetGameInitialState", 1)), service)

\* reconnect_failed: SocketService.ts 201-206
OnReconnectFailed ==
    /\ service.socket = "connected"
    /\ ClientEvent(lobby, leaving(service, [service EXCEPT !.roomInfo = NoInfo]))

\* MultiplayerLobby.tsx 127-132: handleLeaveRoom
HandleLeaveRoom ==
    /\ lobby.enabled
    /\ ClientEvent(dispatchAll(lobby, <<TheAction("SetRoomInfo", 0),
                                        TheAction("SetOpponentConnected", 0)>>),
                   leaving(service, serviceLeaveRoom(service)))

\* a delay(1000) of the countdown is over
DelayElapsed ==
    /\ lobby.at = "delay"
    /\ lobby' = afterDelay(lobby)
    /\ UNCHANGED <<prediction, service, engineVars, serverVars, drawn, gsmVars>>

\* the client before the lobby is opened; the server has the local player's tank, which
\* is the host's, at its spawn position
ClientInit ==
    /\ prediction = PredictionStart([x |-> PLAYER_SPAWN_POSITIONS.host.x,
                                     y |-> PLAYER_SPAWN_POSITIONS.host.y, direction |-> "up"])
    /\ lobby = LobbyStart("watchGameInitialState")
    /\ service = ServiceStart

----------------------------------------------------------------------------
(* The engine under its callers *)

\* the inputs a client sends: drive up, drive down, drive right, aim right and fire
PlayerInputs ==
    { [direction |-> "up", moving |-> TRUE, firing |-> FALSE],
      [direction |-> "down", moving |-> TRUE, firing |-> FALSE],
      [direction |-> "right", moving |-> TRUE, firing |-> FALSE],
      [direction |-> "right", moving |-> FALSE, firing |-> TRUE] }

\* Date.now() - lastTickTime at an interval firing that is on time, or one ms late
Deltas == {16, 17}

\* Date.now() - lastTickTime at successive interval firings of a server whose event
\* loop is held up now and then (a stall delays setInterval callbacks, it does not
\* drop the elapsed time); on time after the recorded firings
FrameTimes == <<16, 800, 16, 100, 800, 16, 800, 100, 800, 16>>
FrameTime(k) == IF k <= Len(FrameTimes) THEN FrameTimes[k] ELSE 16

Input == \E role \in RoleSet, input \in PlayerInputs : handleInput(role, input)

HostInput == \E input \in PlayerInputs : handleInput("host", input)

Frame == ticks < MaxTicks /\ (\E delta \in Deltas : tick(delta)) /\ UNCHANGED <<drawn, gsmVars, clientVars>>

StalledFrame == ticks < MaxFrames /\ tick(FrameTime(ticks + 1)) /\ UNCHANGED <<drawn, gsmVars, clientVars>>

\* no tick has run on a drawn state
NoDraw == [tanks |-> << >>, bullets |-> << >>, brokenBricks |-> {}, brokenSteels |-> {}]

Init == EngineInit /\ ServerInit /\ drawn = NoDraw /\ GsmInit /\ ClientInit

\* any start/stop/handleInput/tick sequence on one engine
EngineNext == Start \/ Stop \/ Input \/ Frame

SpecEngine == Init /\ [][EngineNext]_vars

\* a started engine on a server with event-loop stalls
StallNext == Start \/ HostInput \/ StalledFrame

SpecStall == Init /\ [][StallNext]_vars

\* ---- a started engine whose host drives, each tick recorded with the state before it ----

MaxDriveTicks == 4      \* ticks explored along FrameTimes

DriveFrame ==
    /\ ticks < MaxDriveTicks
    /\ tick(FrameTime(ticks + 1))
    /\ drawn' = [tanks |-> tanks, bullets |-> bullets,
                 brokenBricks |-> brokenBricks, brokenSteels |-> brokenSteels]
    /\ UNCHANGED <<gsmVars, clientVars>>

DriveNext == Start \/ HostInput \/ DriveFrame

SpecDrive == Init /\ [][DriveNext]_vars

\* the gateway under clients that come, go and come back
SpecServer == Init /\ [][ServerNext]_vars

\* the gateway under clients that play
SpecTraffic == Init /\ [][TrafficNext]_vars

\* the gateway relaying the inputs of the players of a room whose engine is started
RelayNext ==
    \/ Start
    \/ Connect
    \/ \E s \in Sockets : CreateRoom(s)
    \/ \E s \in Sockets, r \in RoomIds : JoinRoom(s, r)
    \/ \E s \in Sockets, data \in InputMessages : PlayerInput(s, data)
    \/ \E s \in Sockets : RefillTokens(s)

SpecRelay == Init /\ [][RelayNext]_vars

\* the gateway's timers under joins, leaves, disconnects and game_over, beside an engine
\* that is started and stopped
TimerNext ==
    \/ Start
    \/ Stop
    \/ Connect
    \/ \E s \in Sockets : CreateRoom(s)
    \/ \E s \in Sockets, r \in RoomIds : JoinRoom(s, r)
    \/ \E s \in Sockets : LeaveRoom(s)
    \/ \E s \in Sockets : GameOver(s)
    \/ \E s \in Sockets : Disconnect(s)
    \/ ReconnectTimeout
    \/ \E r \in RoomIds : EnemySpawnTick(r)
    \/ \E r \in RoomIds : StateSyncTick(r)

SpecTimers == Init /\ [][TimerNext]_vars

\* ---- games that start, are left or end, with spawn intervals that keep firing ----

SpawnNext ==
    \/ Connect
    \/ \E s \in Sockets : CreateRoom(s)
    \/ \E s \in Sockets, r \in RoomIds : JoinRoom(s, r)
    \/ \E s \in Sockets : LeaveRoom(s)
    \/ \E s \in Sockets : GameOver(s)
    \/ \E r \in RoomIds : EnemySpawnFiring(r)

\* setInterval: an interval that is not cleared fires again
SpecSpawn == Init /\ [][SpawnNext]_vars /\ \A r \in RoomIds : WF_vars(EnemySpawnFiring(r))

\* ---- games that end, with spawn and sync intervals that keep firing ----

OverNext ==
    \/ Connect
    \/ \E s \in Sockets : CreateRoom(s)
    \/ \E s \in Sockets, r \in RoomIds : JoinRoom(s, r)
    \/ \E s \in Sockets : LeaveRoom(s)
    \/ \E s \in Sockets : GameOver(s)
    \/ \E r \in RoomIds : EnemySpawnFiring(r)
    \/ \E r \in RoomIds : StateSyncTick(r)

\* setInterval: an interval that is not cleared fires again
SpecOver ==
    /\ Init /\ [][OverNext]_vars
    /\ \A r \in RoomIds : WF_vars(EnemySpawnFiring(r)) /\ WF_vars(StateSyncTick(r))

\* ---- the client's prediction in a session, the server's tank standing ----

\* where the server has the host's tank when it has driven it left from its spawn
\* position for 1340 ms: 3.7 from the left edge of the field
PredictAuthority ==
    [x |-> PLAYER_SPAWN_POSITIONS.host.x - TANK_SPEED_player * 1340,
     y |-> PLAYER_SPAWN_POSITIONS.host.y, direction |-> "left"]

\* the keys of the local player: drive left, let go
PredictInputs ==
    { [direction |-> "left", moving |-> TRUE], [direction |-> "left", moving |-> FALSE] }

\* Date.now() - lastTickTime of the client's ticks: on time, and after a stall
PredictDeltas == {16, 100}

PredictInit ==
    /\ EngineInit /\ ServerInit /\ drawn = NoDraw /\ GsmInit
    /\ prediction = PredictionStart(PredictAuthority)
    /\ lobby = LobbyStart("watchGameInitialState")
    /\ service = ServiceStart

PredictInput == \E input \in PredictInputs : UpdateLocalInput(input.direction, input.moving)

PredictTick == \E delta \in PredictDeltas : LocalPlayerPrediction(delta)

\* a state_sync with the tank where the server has it, which is where it was
StateSync == ApplyServerState(prediction.authority)

PredictNext == PredictInput \/ PredictTick \/ StateSync

\* the snapshots keep coming: one that changes the client's state is applied at last
SpecPredict == PredictInit /\ [][PredictNext]_vars /\ WF_prediction(StateSync)

\* ---- the client's lobby: the component, the socket and the countdown ----

LobbySagas == {"watchGameInitialState", "watchOpponentConnection"}

ClientStart ==
    /\ EngineInit /\ ServerInit /\ drawn = NoDraw /\ GsmInit
    /\ prediction = PredictionStart(PredictAuthority)
    /\ lobby \in { LobbyStart(saga) : saga \in LobbySagas }
    /\ service = ServiceStart

ClientNext ==
    \/ Mount \/ Unmount \/ OnConnect \/ OnDisconnect \/ OnReconnect
    \/ (\E joined \in BOOLEAN : OnRoom(joined))
    \/ (\E joined \in BOOLEAN : OnPlayer(joined))
    \/ OnGameStateInit \/ OnReconnectFailed \/ HandleLeaveRoom \/ DelayElapsed

SpecClient == ClientStart /\ [][ClientNext]_vars

\* ---- a started engine whose players shoot ----

MaxShots == 3           \* ticks explored with shooting players

\* fire downwards, fire to the right, drive up and fire
FireInputs ==
    { [direction |-> "down", moving |-> FALSE, firing |-> TRUE],
      [direction |-> "right", moving |-> FALSE, firing |-> TRUE],
      [direction |-> "up", moving |-> TRUE, firing |-> TRUE] }

\* Date.now() - lastTickTime: on time, a cooldown long, a stall long
FireDeltas == {16, 300, 800}

FireInput == \E role \in RoleSet, input \in FireInputs : handleInput(role, input)

FireFrame == ticks < MaxShots /\ (\E delta \in FireDeltas : tick(delta)) /\ UNCHANGED <<drawn, gsmVars, clientVars>>

FireNext == Start \/ FireInput \/ FireFrame

SpecFire == Init /\ [][FireNext]_vars

\* ---- a started engine whose players shoot, with the time of every shot ----

MaxCooldownTicks == 4   \* ticks explored with the shots on record

\* Date.now() - lastTickTime: on time, a hitch, a cooldown long
CooldownDeltas == {16, 100, 300}

\* hold fire, let go
CooldownInputs ==
    { [direction |-> "up", moving |-> FALSE, firing |-> TRUE],
      [direction |-> "up", moving |-> FALSE, firing |-> FALSE] }

\* no tick has run: drawn is the history of the shots, now the sum of the deltas so far
CooldownInit ==
    /\ EngineInit /\ ServerInit /\ GsmInit /\ ClientInit
    /\ drawn = [now |-> 0, shots |-> << >>]

CooldownInput == \E role \in RoleSet, input \in CooldownInputs : handleInput(role, input)

\* the bullets that updatePlayerTanks adds in a tick of delta, as shots at the tick's time
ShotsOf(delta) ==
    LET s == updatePlayerTanks([tanks |-> tanks, bullets |-> bullets, bid |-> bulletIdCounter], delta)
        fired == SelectSeq(s.bullets, LAMBDA b : b.bulletId > bulletIdCounter)
    IN [n \in 1..Len(fired) |-> [tankId |-> fired[n].tankId, at |-> drawn.now + delta,
                                 from |-> drawn.now]]

CooldownFrame ==
    /\ ticks < MaxCooldownTicks
    /\ \E delta \in CooldownDeltas :
         /\ tick(delta)
         /\ drawn' = [now |-> drawn.now + delta, shots |-> drawn.shots \o ShotsOf(delta)]
    /\ UNCHANGED <<gsmVars, clientVars>>

CooldownNext == Start \/ CooldownInput \/ CooldownFrame

SpecCooldown == CooldownInit /\ [][CooldownNext]_vars

\* ---- the collision handlers on drawn tanks and bullets ----

MaxArenaTicks == 1      \* ticks run on each drawn state
MaxArenaBullets == 2    \* bullets in a drawn state

\* Date.now() - lastTickTime of a tick that is on time (TICK_INTERVAL is 1000 / 60)
ArenaDelta == 16

\* a TankState as spawnPlayerTank builds it, for either side
ArenaTank(tankId, side, x, y, hp, helmetDuration, alive) ==
    [tankId |-> tankId, x |-> U(x), y |-> U(y), direction |-> "up", moving |-> FALSE,
     alive |-> alive, side |-> side, level |-> "basic",
     color |-> IF tankId = 1 THEN "yellow" ELSE IF tankId = 2 THEN "green" ELSE "silver",
     hp |-> hp, helmetDuration |-> helmetDuration, frozenTimeout |-> 0, cooldown |-> 0,
     withPowerUp |-> FALSE]

\* the two player tanks at their spawn positions, the host with a helmet that is off,
\* ends in this tick, or is fresh, the guest alive or dead; two bot tanks at the top
ArenaTanks ==
    { << ArenaTank(1, "player", 64, 192, 1, helmet, TRUE),
         ArenaTank(2, "player", 128, 192, 1, 0, guestAlive),
         ArenaTank(3, "bot", 0, 0, 1, 0, TRUE),
         ArenaTank(4, "bot", 192, 0, 2, 0, TRUE) >> :
        helmet \in {0, ArenaDelta, HELMET_DURATION}, guestAlive \in BOOLEAN }

\* where a drawn bullet is after the move of the tick: in the middle of one of the four
\* tanks, inside a brick block, inside the steel block, across the edge between a brick
\* block and the steel block, or in the open
ArenaSpots ==
    { [x |-> U(64) + 1300, y |-> U(192) + 1300], [x |-> U(128) + 1300, y |-> U(192) + 1300],
      [x |-> 1300, y |-> 1300], [x |-> U(192) + 1300, y |-> 1300],
      [x |-> U(82), y |-> U(20)], [x |-> U(102), y |-> U(54)],
      [x |-> U(94) + 100, y |-> U(50)], [x |-> U(40), y |-> U(2)] }

WallSpots == { sp \in ArenaSpots : sp.x \in {U(82), U(102), U(94) + 100} }

\* a BulletState flying right that the move of the tick takes to the spot
ArenaBullet(tankId, spot, power) ==
    [bulletId |-> 0, x |-> spot.x - BULLET_SPEED * ArenaDelta, y |-> spot.y,
     direction |-> "right", speed |-> BULLET_SPEED, tankId |-> tankId, power |-> power]

\* bullets of every owner at every spot; those at the walls with power 1, 2 and 3
ArenaBullets ==
    { ArenaBullet(tankId, spot, 1) : tankId \in 1..4, spot \in ArenaSpots }
      \cup { ArenaBullet(tankId, spot, power) : tankId \in {1, 3}, spot \in WallSpots,
                                                power \in {2, 3} }

\* the bullet lists of a drawn state, with ids in list order
ArenaBulletLists ==
    { [i \in 1..Len(bs) |-> [bs[i] EXCEPT !.bulletId = i]] :
        bs \in UNION { [1..n -> ArenaBullets] : n \in 0..MaxArenaBullets } }

\* the rest of a started engine with drawn tanks and bullets
ArenaRest ==
    /\ players = [r \in RoleSet |->
                    [lives |-> 3, score |-> 0, activeTankId |-> IF r = "host" THEN 1 ELSE 2]]
    /\ remainingBots = createInitialState.remainingBots
    /\ gameStatus = "playing"
    /\ tickInterval = TRUE
    /\ tickIntervals = 1
    /\ tankIdCounter = 4
    /\ bulletIdCounter = Len(bullets)
    /\ playerInputs = [r \in RoleSet |-> NoInput]
    /\ ticks = 0
    /\ starts = 1
    /\ ServerInit
    /\ drawn = NoDraw
    /\ GsmInit
    /\ ClientInit

\* an engine that has started, with one of the lists of drawn tanks and one of the lists
\* of drawn bullets
ArenaWith(tankLists, lists) ==
    /\ tanks \in tankLists
    /\ bullets \in lists
    /\ brokenBricks = {}
    /\ brokenSteels = {}
    /\ ArenaRest

\* the drawn tanks with one of the lists of drawn bullets
ArenaFrom(lists) == ArenaWith(ArenaTanks, lists)

ArenaInit == ArenaFrom(ArenaBulletLists)

ArenaTick ==
    /\ ticks < MaxArenaTicks
    /\ tick(ArenaDelta)
    /\ drawn' = [tanks |-> tanks, bullets |-> bullets,
                 brokenBricks |-> brokenBricks, brokenSteels |-> brokenSteels]
    /\ UNCHANGED <<gsmVars, clientVars>>

SpecArena == ArenaInit /\ [][ArenaTick]_vars

\* ---- the collision handlers on drawn tanks that overlap ----

\* the player tanks at a spawn position or on one another, the bot tanks on one another,
\* side by side or apart
PileTanks ==
    { << ArenaTank(1, "player", 64, 192, 1, 0, TRUE),
         ArenaTank(2, "player", guestX, 192, 1, 0, TRUE),
         ArenaTank(3, "bot", 0, 0, 1, 0, TRUE),
         ArenaTank(4, "bot", botX, 0, 2, 0, TRUE) >> :
        guestX \in {72, 128}, botX \in {8, 16, 192} }

\* where a drawn bullet is after the move of the tick: in tank 3 and in tank 4 at x = 8,
\* across the edge of tank 3 and tank 4 at x = 16, in tank 3 alone, in tank 1 and in
\* tank 2 at x = 72, in the open
PileSpots ==
    { [x |-> U(10), y |-> U(6)], [x |-> U(15), y |-> U(6)], [x |-> U(2), y |-> U(6)],
      [x |-> U(74), y |-> U(198)], [x |-> U(40), y |-> U(2)] }

\* bullets of every owner at every spot
PileBullets == { ArenaBullet(tankId, spot, 1) : tankId \in 1..4, spot \in PileSpots }

PileBulletLists ==
    { [i \in 1..Len(bs) |-> [bs[i] EXCEPT !.bulletId = i]] :
        bs \in UNION { [1..n -> PileBullets] : n \in 0..MaxArenaBullets } }

SpecPile == ArenaWith(PileTanks, PileBulletLists) /\ [][ArenaTick]_vars

\* ---- the engine going on from a drawn state, its interval firing on time ----

MaxWreckTicks == 3      \* ticks run on each drawn state

\* the spots in the middle of the four tanks
TankSpots == { sp \in ArenaSpots : sp.y \in {1300, U(192) + 1300} }

\* the lists of drawn bullets that land on tanks
WreckBulletLists ==
    { bs \in ArenaBulletLists : \A i \in 1..Len(bs) : bs[i].y \in { sp.y : sp \in TankSpots } }

WreckTick == ticks < MaxWreckTicks /\ tick(ArenaDelta) /\ UNCHANGED <<drawn, gsmVars, clientVars>>

\* a tick of the interval is taken (the steps that count a tick are those of WreckTick)
WreckTickTaken == ticks < MaxWreckTicks /\ ticks' = ticks + 1

\* setInterval: the tick interval, which is not cleared, keeps firing: a tick that is due
\* is taken
SpecWreck == ArenaFrom(WreckBulletLists) /\ [][WreckTick]_vars /\ WF_ticks(WreckTickTaken)

\* ---- the engine going on from a drawn state with bullets of an owner that is gone ----

\* a tankId that no tank of the list has
NoTankId == 9

\* the spots in the middle of the four tanks, and one in the open
OrphanSpots == TankSpots \cup { [x |-> U(40), y |-> U(2)] }

\* bullets of the host, of a bot and of a tank that is gone
OrphanBullets ==
    { ArenaBullet(tankId, spot, 1) : tankId \in {1, 3, NoTankId}, spot \in OrphanSpots }

OrphanBulletLists ==
    { [i \in 1..Len(bs) |-> [bs[i] EXCEPT !.bulletId = i]] :
        bs \in UNION { [1..n -> OrphanBullets] : n \in 0..MaxArenaBullets } }

SpecOrphan == ArenaFrom(OrphanBulletLists) /\ [][WreckTick]_vars

\* ---- the whole tick on drawn states: players firing, bullets at walls and tanks ----

MaxOrderTicks == 3      \* ticks run on each drawn state
MaxOrderBullets == 1    \* bullets in a drawn state

\* Date.now() - lastTickTime of the ticks: on time, a cooldown long, a stall long
OrderDeltas == <<16, 300, 800>>
OrderDelta(k) == IF k <= Len(OrderDeltas) THEN OrderDeltas[k] ELSE 16

\* the player tanks at their spawn positions, a bot tank whose right side is at the brick
\* block of row 1, column 1, and a bot tank at the top right
OrderTanks ==
    { << ArenaTank(1, "player", 64, 192, 1, 0, TRUE),
         ArenaTank(2, "player", 128, 192, 1, 0, TRUE),
         ArenaTank(3, "bot", 0, 16, 1, 0, TRUE),
         ArenaTank(4, "bot", 192, 0, 2, 0, TRUE) >> }

\* where a drawn bullet starts: above the corner of tank 3 and the brick block, above
\* tank 3 away from the bricks, and in the open
OrderStarts ==
    { [x |-> U(14), y |-> U(14) + 24], [x |-> U(6), y |-> U(14) + 24], [x |-> U(40), y |-> U(2)] }

\* bullets of the host and of the bot at the top right, flying down
OrderBullets ==
    { [bulletId |-> 0, x |-> from.x, y |-> from.y, direction |-> "down",
       speed |-> BULLET_SPEED, tankId |-> tankId, power |-> 1] :
        tankId \in {1, 4}, from \in OrderStarts }

OrderBulletLists ==
    { [i \in 1..Len(bs) |-> [bs[i] EXCEPT !.bulletId = i]] :
        bs \in UNION { [1..n -> OrderBullets] : n \in 0..MaxOrderBullets } }

OrderTick ==
    /\ ticks < MaxOrderTicks
    /\ tick(OrderDelta(ticks + 1))
    /\ drawn' = [tanks |-> tanks, bullets |-> bullets,
                 brokenBricks |-> brokenBricks, brokenSteels |-> brokenSteels]
    /\ UNCHANGED <<gsmVars, clientVars>>

OrderNext == FireInput \/ OrderTick

SpecOrder == ArenaWith(OrderTanks, OrderBulletLists) /\ [][OrderNext]_vars

\* ---- bullets in flight over the field, the interval firing early, on time and late ----

MaxFlightTicks == 40    \* ticks run on each drawn state
MaxFlightBullets == 2   \* bullets in a drawn state

\* Date.now() - lastTickTime of the ticks, all positive: the next ms, on time, one ms
\* late, after a stall; in turns
FlightDeltas == <<1, 16, 17, 100>>
FlightDelta(k) == FlightDeltas[((k - 1) % Len(FlightDeltas)) + 1]

\* where a drawn bullet starts: in the open of the top row, between the player tanks,
\* in the middle of the field's left edge, in the lower right corner, next to tank 3
FlightStarts ==
    { [x |-> U(40), y |-> U(2)], [x |-> U(100), y |-> U(198)], [x |-> 0, y |-> U(102)],
      [x |-> U(205), y |-> U(205)], [x |-> U(20), y |-> U(22)] }

\* bullets of the host and of a bot, flying in each direction
FlightBullets ==
    { [bulletId |-> 0, x |-> from.x, y |-> from.y, direction |-> direction,
       speed |-> BULLET_SPEED, tankId |-> tankId, power |-> 1] :
        tankId \in {1, 3}, from \in FlightStarts, direction \in Directions }

FlightBulletLists ==
    { [i \in 1..Len(bs) |-> [bs[i] EXCEPT !.bulletId = i]] :
        bs \in UNION { [1..n -> FlightBullets] : n \in 0..MaxFlightBullets } }

FlightTick ==
    /\ ticks < MaxFlightTicks
    /\ tick(FlightDelta(ticks + 1))
    /\ drawn' = [tanks |-> tanks, bullets |-> bullets,
                 brokenBricks |-> brokenBricks, brokenSteels |-> brokenSteels]
    /\ UNCHANGED <<gsmVars, clientVars>>

\* a tick of the interval is taken (the steps that count a tick are those of FlightTick)
FlightTickTaken == ticks < MaxFlightTicks /\ ticks' = ticks + 1

\* setInterval: the tick interval, which is not cleared, keeps firing: a tick that is due
\* is taken
SpecFlight ==
    ArenaWith(OrderTanks, FlightBulletLists) /\ [][FlightTick]_vars /\ WF_ticks(FlightTickTaken)

\* ---- the turn of a tank on drawn states: the host's tank at walls, off the grid ----

MaxTurnTicks == 2       \* ticks run on each drawn state

\* where the host's tank is drawn, with the brick cells cleared by then: between bricks
\* with neither grid line free; above bricks whose upper row is cleared, where only the
\* grid line above is free and the nearest one is below; just above intact bricks; under
\* bricks whose lower row is cleared, where only the grid line below is free and the
\* nearest one is above; just under intact bricks; in the open off the grid, driving up
\* and driving right
TurnCases ==
    { [x |-> U(72), y |-> U(148), direction |-> "up",
       broken |-> {1944, 1945, 1996, 1997, 2048, 2049, 2100, 2101}],
      [x |-> 0, y |-> U(92), direction |-> "down", broken |-> 1352..1355],
      [x |-> 0, y |-> U(88) + 1, direction |-> "down", broken |-> {}],
      [x |-> U(16), y |-> U(84) - 1, direction |-> "up", broken |-> 1096..1099],
      [x |-> U(16), y |-> U(88) - 1, direction |-> "up", broken |-> {}],
      [x |-> U(64), y |-> U(192) - 144, direction |-> "up", broken |-> {}],
      [x |-> U(4) + 144, y |-> 0, direction |-> "right", broken |-> {}] }

TurnInit ==
    /\ \E c \in TurnCases :
         /\ tanks = << [ArenaTank(1, "player", 0, 0, 1, 0, TRUE)
                          EXCEPT !.x = c.x, !.y = c.y, !.direction = c.direction],
                       ArenaTank(2, "player", 128, 192, 1, 0, TRUE) >>
         /\ brokenBricks = c.broken
    /\ bullets = << >>
    /\ brokenSteels = {}
    /\ ArenaRest

TurnTick ==
    /\ ticks < MaxTurnTicks
    /\ tick(ArenaDelta)
    /\ drawn' = [tanks |-> tanks, bullets |-> bullets,
                 brokenBricks |-> brokenBricks, brokenSteels |-> brokenSteels]
    /\ UNCHANGED <<gsmVars, clientVars>>

TurnNext == HostInput \/ TurnTick

SpecTurn == TurnInit /\ [][TurnNext]_vars

\* ---- two managers whose queues are initialised, used and cleared at any time ----

QueueNext ==
    \/ \E m \in Managers, roomId \in RoomCodes : InitializeEnemyQueue(m, roomId)
    \/ \E m \in Managers, roomId \in RoomCodes : SpawnNextEnemy(m, roomId)
    \/ \E m \in Managers, roomId \in RoomCodes : ClearEnemyQueue(m, roomId)
    \/ Elapse

SpecQueues == Init /\ [][QueueNext]_vars

\* ---- a manager setting up and using the queue of a room, for every seed ----

ShuffleInit ==
    /\ EngineInit /\ ServerInit /\ drawn = NoDraw
    /\ managers = [m \in Managers |-> [roomId \in RoomCodes |-> NoEntry]]
    /\ clock = 0
    /\ trial \in { [NoTrial EXCEPT !.seed = s] : s \in TrialSeeds }
    /\ ClientInit

ShuffleNext == InitializeTrial \/ SpawnTrial

SpecShuffle == ShuffleInit /\ [][ShuffleNext]_vars

----------------------------------------------------------------------------
(* Claims on the engine *)

\* C1: after any sequence of ticks and handleInput calls on a started engine, no alive
\* tank's 16x16 rectangle overlaps a present brick or steel cell beyond the -0.01
\* threshold, i.e. checkTankWallCollision at the tank's own position is false
C1_NoTankInWall ==
    \A i \in 1..Len(tanks) :
        tanks[i].alive => ~checkTankWallCollision(tanks[i].x, tanks[i].y)

AlivePlayerTanks(color) ==
    { i \in 1..Len(tanks) :
        tanks[i].side = "player" /\ tanks[i].color = color /\ tanks[i].alive }

\* C2: at every instant each slot (host = yellow, guest = green) has at most one alive
\* tank of side player and of the slot's colour, over any sequence of start(), stop(),
\* tick and handleInput calls, start() after stop() included
C2_OneAliveTankPerSlot ==
    \A color \in {"yellow", "green"} : Cardinality(AlivePlayerTanks(color)) <= 1

----------------------------------------------------------------------------
(* Claims on the gateway.  A socket receives what a handler emits to it; a   *)
(* socket that has disconnected is in no socket.io room and receives         *)
(* nothing, so what a peer receives is stated for the peers that are in the  *)
(* room when the handler runs.                                               *)

\* what the last handler sent to socket s, in order
EmitsTo(s) == SelectSeq(emitted, LAMBDA e : e.to = s)

EventsTo(s) == [i \in 1..Len(EmitsTo(s)) |-> EmitsTo(s)[i].ev]

\* the first n events of a sequence of events
FirstEvents(evs, n) == IF Len(evs) >= n THEN SubSeq(evs, 1, n) ELSE evs

\* the last handler was a join_room that made its socket the guest of a room that
\* thereby has two players
JoinMadeTwo ==
    /\ last.op = "join_room"
    /\ RoomExists(rooms, last.room)
    /\ rooms[last.room].players["guest"].socketId = last.socket
    /\ PlayersOf(rooms[last.room]) = RoleSet

\* C3: when a guest's join_room succeeds and the room thereby has two players, the
\* joiner receives room_joined, the host receives player_joined, and then both sockets
\* receive game_start followed by game_state_init, in that order, each once, with
\* hostTankColor = yellow and guestTankColor = green; game_start never arrives after
\* game_state_init
C3_JoinSequence ==
    JoinMadeTwo =>
      /\ FirstEvents(EventsTo(last.socket), 3) = <<"room_joined", "game_start", "game_state_init">>
      /\ \A s \in members(ioRooms, last.room) \ {last.socket} :
           FirstEvents(EventsTo(s), 3) = <<"player_joined", "game_start", "game_state_init">>
      /\ rooms[last.room].players["host"].status = "connected" =>
           rooms[last.room].players["host"].socketId \in members(ioRooms, last.room)
      /\ \A i \in 1..Len(emitted) :
           /\ emitted[i].ev = "game_state_init" =>
                /\ emitted[i].data.hostTankColor = "yellow"
                /\ emitted[i].data.guestTankColor = "green"
           /\ \A j \in 1..Len(emitted) :
                (emitted[i].to = emitted[j].to /\ emitted[i].ev = "game_state_init"
                   /\ emitted[j].ev = "game_start") => j < i
           /\ \A j \in 1..Len(emitted) :
                (emitted[i].to = emitted[j].to /\ emitted[i].ev = emitted[j].ev
                   /\ emitted[i].ev \in {"room_joined", "player_joined", "game_start",
                                         "game_state_init"}) => i = j

C3_Witness ==
    /\ JoinMadeTwo
    /\ rooms[last.room].players["host"].status = "connected"
    /\ Len(EmitsTo(rooms[last.room].players["host"].socketId)) >= 3
    /\ Len(EmitsTo(last.socket)) >= 3

\* the events of a running game
IsGameEvent(e) ==
    \/ e.ev \in {"game_start", "game_state_init", "state_sync"}
    \/ e.ev = "game_state_event" /\ e.type = "enemy_spawn"

\* C4: for a room that has not yet had two players, no game_start, game_state_init,
\* enemy spawn event or state_sync is ever emitted, and it has no spawn or sync timer and
\* no enemy queue; so a room whose host leaves or times out before a guest joins is
\* freed without any of these having been emitted
C4_WaitingRoomIsSilent ==
    /\ \A i \in 1..Len(emitted) : IsGameEvent(emitted[i]) => last.room \in reachedTwo
    /\ \A r \in RoomIds \ reachedTwo :
         /\ r \notin enemySpawnTimers
         /\ r \notin stateSyncTimers
         /\ roomEnemyCounters[r] = NoQueue

C4_Witness ==
    /\ last.op \in {"leave_room", "timeout"}
    /\ last.room \in RoomIds
    /\ last.room <= numRooms
    /\ last.room \notin reachedTwo
    /\ ~RoomExists(rooms, last.room)

\* the slot of room r that holds socket s, or no slot
SlotOfSocket(rms, r, s) == { role \in RoleSet : rms[r].players[role].socketId = s }

\* C5: when a socket that is in a room disconnects, its slot is marked disconnected but
\* kept with its socket and session id, the peer receives opponent_disconnected, and
\* timers and enemy queue are left alone; when the grace timer fires on a slot that is
\* still disconnected, the player is removed, the room's timers are stopped, its enemy
\* queue is cleared and player_left is emitted to the remaining player; a disconnected
\* slot is removed by nothing but its grace timer
C5_DisconnectStep ==
    (last'.op = "disconnect" /\ last'.room # 0) =>
      /\ \A role \in SlotOfSocket(rooms, last'.room, last'.socket) :
           /\ rooms'[last'.room].players[role] =
                [rooms[last'.room].players[role] EXCEPT !.status = "disconnected"]
           /\ rooms' = [rooms EXCEPT ![last'.room].players[role].status = "disconnected"]
      /\ SlotOfSocket(rooms, last'.room, last'.socket) # {}
      /\ recipientsOf(emitted', "opponent_disconnected")
           = members(ioRooms, last'.room) \ {last'.socket}
      /\ \A role \in RoleSet :
           (/\ rooms[last'.room].players[role].status = "connected"
            /\ rooms[last'.room].players[role].socketId # last'.socket) =>
             rooms[last'.room].players[role].socketId
               \in recipientsOf(emitted', "opponent_disconnected")
      /\ \A i \in 1..Len(emitted') : emitted'[i].ev = "opponent_disconnected"
      /\ UNCHANGED <<enemySpawnTimers, spawnIntervals, stateSyncTimers, syncIntervals, roomEnemyCounters>>

C5_TimeoutStep ==
    (/\ last'.op = "timeout"
     /\ RoomExists(rooms, last'.room)
     /\ \E role \in RoleSet :
          /\ rooms[last'.room].players[role].socketId = last'.socket
          /\ rooms[last'.room].players[role].status = "disconnected") =>
      /\ \A role \in RoleSet :
           \/ rooms'[last'.room].players[role] = NoPlayer
           \/ /\ rooms[last'.room].players[role].socketId # last'.socket
              /\ rooms'[last'.room].players[role] = rooms[last'.room].players[role]
      /\ last'.room \notin enemySpawnTimers'
      /\ last'.room \notin stateSyncTimers'
      /\ roomEnemyCounters'[last'.room] = NoQueue
      /\ recipientsOf(emitted', "player_left") = members(ioRooms, last'.room)
      /\ \A role \in RoleSet :
           (/\ rooms[last'.room].players[role].status = "connected"
            /\ rooms[last'.room].players[role].socketId \in connected) =>
             rooms[last'.room].players[role].socketId \in recipientsOf(emitted', "player_left")

C5_KeptUntilTimeout ==
    \A r \in RoomIds, role \in RoleSet :
      (/\ rooms[r].players[role].status = "disconnected"
       /\ rooms'[r].players[role].sessionId # rooms[r].players[role].sessionId) =>
        /\ last'.op = "timeout"
        /\ last'.socket = rooms[r].players[role].socketId

C6_StaleTimerIsNoOp ==
    [][ (/\ last'.op = "timeout"
         /\ \E b \in rebound : b.socketId = last'.socket) =>
          /\ emitted' = << >>
          /\ UNCHANGED <<rooms, ioRooms, enemySpawnTimers, spawnIntervals, stateSyncTimers, syncIntervals, roomEnemyCounters,
                         connected>> ]_vars

\* the timer of a replaced socket has fired while the session that replaced it is
\* disconnected again
C6_Witness ==
    /\ last.op = "timeout"
    /\ RoomExists(rooms, last.room)
    /\ \E b \in rebound, role \in RoleSet :
         /\ b.socketId = last.socket
         /\ rooms[last.room].players[role].sessionId = b.session
         /\ rooms[last.room].players[role].status = "disconnected"

\* the reconnect of a session that the slot role of room r holds
C7_KnownSession(r, role) ==
    /\ rooms' = [rooms EXCEPT ![r].players[role] =
                   [socketId |-> last'.socket, sessionId |-> last'.session,
                    status |-> "connected"]]
    /\ r \in ioRooms'[last'.socket]
    /\ SelectSeq(emitted', LAMBDA e : e.to = last'.socket)
         = << Emit(last'.socket, "reconnect_success", "", [roomId |-> r, role |-> role]) >>
    /\ recipientsOf(emitted', "opponent_reconnected")
         = members(ioRooms, r) \ {last'.socket}
    /\ \A i \in 1..Len(emitted') :
         emitted'[i].to # last'.socket =>
           /\ emitted'[i].ev = "opponent_reconnected"
           /\ \E other \in RoleSet \ {role} :
                emitted'[i].to = rooms[r].players[other].socketId
    /\ \A other \in RoleSet \ {role} :
         rooms[r].players[other].status = "connected" =>
           rooms[r].players[other].socketId \in recipientsOf(emitted', "opponent_reconnected")

C7_UnknownSession ==
    /\ Len(emitted') = 1
    /\ emitted'[1].to = last'.socket
    /\ emitted'[1].ev = "reconnect_failed"
    /\ UNCHANGED <<rooms, ioRooms>>
    /\ ioRooms'[last'.socket] = {}

C9_LeaveStep ==
    (last'.op = "leave_room" /\ last'.room # 0) =>
      /\ recipientsOf(emitted', "player_left") = members(ioRooms, last'.room) \ {last'.socket}
      /\ \A i \in 1..Len(emitted') : emitted'[i].ev = "player_left"
      /\ \A role \in RoleSet :
           (/\ rooms[last'.room].players[role].status = "connected"
            /\ rooms[last'.room].players[role].socketId # last'.socket) =>
             rooms[last'.room].players[role].socketId \in recipientsOf(emitted', "player_left")
      /\ last'.room \notin enemySpawnTimers'
      /\ last'.room \notin stateSyncTimers'
      /\ roomEnemyCounters'[last'.room] = NoQueue
      /\ \A r \in RoomIds, role \in RoleSet : rooms'[r].players[role].socketId # last'.socket
      /\ last'.room \notin ioRooms'[last'.socket]

\* a leave_room of a socket that is in no room
C9_LeaveNowhere ==
    (last'.op = "leave_room" /\ last'.room = 0) =>
      /\ emitted' = << >>
      /\ UNCHANGED <<numSockets, connected, ioRooms, rooms, numRooms, numSessions,
                     enemySpawnTimers, spawnIntervals, stateSyncTimers, syncIntervals, roomEnemyCounters, reconnectTimeouts,
                     tokens>>
      /\ UNCHANGED <<engineVars, drawn, gsmVars, clientVars>>

\* no spawn or sync interval is left for a room that was left, and none fires with an
\* emit for it, until a game is started in it again
C9_SilentAfterLeave ==
    /\ \A r \in stoppedRooms' : r \notin enemySpawnTimers' /\ r \notin stateSyncTimers'
    /\ (last'.op \in {"spawn_tick", "sync_tick"} /\ emitted' # << >>) =>
         last'.room \notin stoppedRooms
    /\ \A i \in 1..Len(emitted') :
         (IsGameEvent(emitted'[i]) /\ last'.room \in stoppedRooms) =>
           /\ last'.op = "join_room"
           /\ last'.room \notin stoppedRooms'

\* C9: when a socket in a room sends leave_room, player_left is emitted to the other
\* socket and not to the leaver, the timers of the room are stopped, the enemy queue is
\* cleared and the leaver is removed; after that no enemy spawn event and no state_sync
\* is emitted for that room unless a new game is started; a leave_room from a socket in
\* no room changes nothing and emits nothing
C9_LeaveRoom == [][C9_LeaveStep /\ C9_LeaveNowhere /\ C9_SilentAfterLeave]_vars

C9_Witness ==
    /\ last.op = "leave_room"
    /\ last.room \in stoppedRooms
    /\ recipientsOf(emitted, "player_left") # {}
    /\ last.socket \notin recipientsOf(emitted, "player_left")

\* C10: a player_input that fails the shape check or exceeds the rate limit is answered
\* with room_error of type invalid_input to the sender only, is neither applied to a
\* game nor forwarded to anyone, and leaves the connection and the sender's room
\* membership unchanged; a player_input from a socket in no room is dropped with no effect
C10_BadInput ==
    [][ last'.op = "player_input" =>
          /\ (last'.room # 0
                /\ (~validateInput(last'.arg) \/ ~checkRateLimit(tokens[last'.socket]))) =>
               /\ emitted' = << Emit(last'.socket, "room_error", "invalid_input", NoData) >>
               /\ UNCHANGED <<connected, ioRooms, rooms, enemySpawnTimers, spawnIntervals, stateSyncTimers, syncIntervals,
                              roomEnemyCounters, reconnectTimeouts>>
               /\ UNCHANGED <<engineVars, drawn, gsmVars, clientVars>>
          /\ last'.room = 0 =>
               /\ emitted' = << >>
               /\ UNCHANGED <<numSockets, connected, ioRooms, rooms, numRooms, numSessions,
                              enemySpawnTimers, spawnIntervals, stateSyncTimers, syncIntervals, roomEnemyCounters,
                              reconnectTimeouts, tokens>>
               /\ UNCHANGED <<engineVars, drawn, gsmVars, clientVars>> ]_vars

\* an input of good shape from a socket in a room with its peer was refused for its rate
C10_Witness ==
    /\ last.op = "player_input"
    /\ last.room # 0
    /\ validateInput(last.arg)
    /\ recipientsOf(emitted, "room_error") = {last.socket}
    /\ members(ioRooms, last.room) # {last.socket}

----------------------------------------------------------------------------
(* Claims on the engine behind the gateway *)

\* the latest-input cell that handleInput stores for the message data in the slot role
InputCell(role, data) ==
    [direction |-> IF data.direction # NoDirection THEN data.direction
                                                   ELSE playerInputs[role].direction,
     moving |-> data.moving,
     firing |-> data.firing]

\* C11: an accepted player_input from the socket of a slot is written into the engine's
\* latest-input cell of that same slot, and the other slot's cell is left as it was
C11_InputReachesOwnSlot ==
    [][ (/\ last'.op = "player_input"
         /\ last'.room # 0
         /\ rooms[last'.room].status = "playing"
         /\ inputVerdict(last'.arg, tokens[last'.socket]) = "ok"
         /\ gameStatus = "playing") =>
          playerInputs' =
            [playerInputs EXCEPT ![RoleOfSocket(rooms[last'.room], last'.socket)] =
               InputCell(RoleOfSocket(rooms[last'.room], last'.socket), last'.arg)] ]_vars

\* C12: state_sync is emitted only by the broadcast loop of a room in status playing,
\* goes to the sockets of that room, and carries the engine's snapshot (tanks, bullets,
\* map, players, remainingBots, gameStatus)
C12_StateSyncCarriesSnapshot ==
    \A i \in 1..Len(emitted) :
       emitted[i].ev = "state_sync" =>
         /\ last.op = "sync_tick"
         /\ roomIsPlaying(rooms, last.room)
         /\ emitted[i].to \in members(ioRooms, last.room)
         /\ emitted[i].data = getState

\* C13: every room id has at most one spawn interval and at most one sync interval that
\* is set and not cleared, after any handler; an engine has at most one tick interval,
\* and start() on a running engine spawns nothing and changes no state
C13_OneTimerEach ==
    [][ /\ \A r \in RoomIds : spawnIntervals'[r] <= 1 /\ syncIntervals'[r] <= 1
        /\ tickIntervals' <= 1
        /\ (starts' = starts + 1 /\ tickInterval) =>
             UNCHANGED <<tanks, bullets, brokenBricks, brokenSteels, players, remainingBots,
                         gameStatus, tickInterval, tickIntervals, tankIdCounter,
                         bulletIdCounter, playerInputs, ticks>> ]_vars

\* a room started its game again after a grace timeout had stopped its timers, and
\* start() was called on the running engine
C13_Witness ==
    /\ last.op = "join_room"
    /\ roomIsPlaying(rooms, last.room)
    /\ \E e \in expired : e.peers = {rooms[last.room].players["host"].socketId}
    /\ spawnIntervals[last.room] = 1
    /\ syncIntervals[last.room] = 1
    /\ starts = 2
    /\ tickIntervals = 1
    /\ tankIdCounter = 2

----------------------------------------------------------------------------
(* Claims on bullets *)

\* C14: at every snapshot every bullet's 3x3 box lies inside the field:
\* 0 <= x, x + 3 <= 208, 0 <= y, y + 3 <= 208; a bullet whose box is outside the field
\* after the move of a tick, the one created outside at the muzzle of a tank at the
\* field edge included, is not in the bullets of the snapshot
C14_BulletsInField ==
    \A i \in 1..Len(bullets) :
       /\ 0 <= bullets[i].x /\ bullets[i].x + 3 * Scale <= 208 * Scale
       /\ 0 <= bullets[i].y /\ bullets[i].y + 3 * Scale <= 208 * Scale

\* the host tank, at the bottom edge and turned down, fired in the first tick (its
\* cooldown is under way): the bullet was created at y = 208 and is gone
C14_Witness ==
    /\ ticks = 1
    /\ Len(tanks) = 2
    /\ tanks[1].direction = "down"
    /\ tanks[1].y + U(TANK_SIZE) = U(FIELD_SIZE)
    /\ tanks[1].cooldown > 0
    /\ bulletIdCounter >= 1
    /\ \A i \in 1..Len(bullets) : bullets[i].tankId # tanks[1].tankId

\* the cells that parseStageMap sets lie inside its two arrays
ParsedInsideArrays ==
    /\ Stage1Bricks \subseteq 0..(52 * 52 - 1)
    /\ Stage1Steels \subseteq 0..(26 * 26 - 1)

\* C15: the bricks array keeps its 52*52 cells and the steels array its 26*26 cells (no
\* cell is written outside them), and a cell that is false is false in every later
\* state.  The cells that parseStageMap left false are never written; the others are
\* false exactly when the engine has cleared them
C15_MapMonotone ==
    [][ /\ ParsedInsideArrays
        /\ brokenBricks' \subseteq 0..(52 * 52 - 1)
        /\ brokenSteels' \subseteq 0..(26 * 26 - 1)
        /\ \A i \in brokenBricks : ~brickAt(brokenBricks', i)
        /\ \A i \in brokenSteels : ~steelAt(brokenSteels', i) ]_vars

\* bricks were cleared by the second tick, and a third tick with a bullet in flight
\* has run since
C15_Witness ==
    /\ ticks = 3
    /\ brokenBricks # {}
    /\ bulletIdCounter = 2
    /\ Len(bullets) = 1
    /\ bullets[1].bulletId = 2
    /\ \E i \in 1..Len(tanks) : tanks[i].tankId = bullets[1].tankId /\ tanks[i].cooldown = 0

----------------------------------------------------------------------------
(* Claims on the collision handlers, for a tick on a drawn state.  A bullet  *)
(* meets the tanks where the move of the tick has put it, if it is then in   *)
(* the field and at no wall; each claim is about one bullet and one tank     *)
(* and says when a bullet of another owner on the same tank is excluded.     *)

\* the drawn bullet b where the move of the tick puts it
Landed(b) ==
    [b EXCEPT !.x = calculateNewPosition(b.x, b.y, b.direction, b.speed * ArenaDelta).x,
              !.y = calculateNewPosition(b.x, b.y, b.direction, b.speed * ArenaDelta).y]

LandedBullets == { Landed(drawn.bullets[i]) : i \in 1..Len(drawn.bullets) }

DrawnTanks == 1..Len(drawn.tanks)

\* the 3x3 box of b overlaps or touches the 16x16 box of the tank t
OnTank(b, t) ==
    /\ t.x - 3 * Scale <= b.x /\ b.x <= t.x + 16 * Scale
    /\ t.y - 3 * Scale <= b.y /\ b.y <= t.y + 16 * Scale

\* b is in the field and at no wall of the map: it is there when the tanks are looked at
ReachesTanks(b) ==
    /\ InField(b)
    /\ CellsUnderBullet(b, BRICK_SIZE, BRICKS_PER_ROW) \cap Stage1Bricks = {}
    /\ CellsUnderBullet(b, STEEL_SIZE, STEELS_PER_ROW) \cap Stage1Steels = {}

SideOf(b) == drawn.tanks[FindTank(drawn.tanks, b.tankId)].side

\* a bullet of the given side is on the drawn tank j
HitBy(side, j) == \E c \in LandedBullets : SideOf(c) = side /\ OnTank(c, drawn.tanks[j])

\* the bullet is in the snapshot after the tick
Kept(b) == \E k \in 1..Len(bullets) : bullets[k].bulletId = b.bulletId

\* the tick left hp and alive of the tank j as they were
Unhurt(j) == tanks[j].hp = drawn.tanks[j].hp /\ tanks[j].alive = drawn.tanks[j].alive

\* C16: a player's bullet that overlaps the other player's alive tank is removed in that
\* tick and leaves the target's hp and alive flag as they were (no bot's bullet being on
\* the target); a bullet on its owner only is kept, and a tank with none but its own
\* bullets on it keeps hp and alive
C16_PlayerBulletOnPlayer ==
    \A b \in LandedBullets, j \in DrawnTanks :
       (ReachesTanks(b) /\ OnTank(b, drawn.tanks[j])) =>
          /\ (/\ SideOf(b) = "player"
              /\ drawn.tanks[j].side = "player"
              /\ drawn.tanks[j].tankId # b.tankId
              /\ drawn.tanks[j].alive
              /\ ~HitBy("bot", j)) => (~Kept(b) /\ Unhurt(j))
          /\ (/\ drawn.tanks[j].tankId = b.tankId
              /\ \A i \in DrawnTanks \ {j} :
                    ~(drawn.tanks[i].alive /\ OnTank(b, drawn.tanks[i]))) => Kept(b)
          /\ (/\ drawn.tanks[j].tankId = b.tankId
              /\ \A c \in LandedBullets :
                    OnTank(c, drawn.tanks[j]) => c.tankId = b.tankId) => Unhurt(j)

\* the guest's bullet was on the alive host tank while the host's own bullet was on it
C16_Witness ==
    /\ Len(drawn.bullets) = 2
    /\ \E b \in LandedBullets :
          /\ b.tankId = 2 /\ OnTank(b, drawn.tanks[1]) /\ ReachesTanks(b) /\ ~Kept(b)
    /\ \E b \in LandedBullets :
          /\ b.tankId = 1 /\ OnTank(b, drawn.tanks[1]) /\ ReachesTanks(b) /\ Kept(b)
    /\ drawn.tanks[1].alive
    /\ drawn.tanks[1].helmetDuration = 0
    /\ tanks[1].hp = 1

\* C17: a bot's bullet that overlaps a bot tank leaves the target's hp and alive flag as
\* they were (no player's bullet being on the target) and is not removed by that
\* overlap: with no alive player tank under it, it is kept
C17_BotBulletOnBot ==
    \A b \in LandedBullets, j \in DrawnTanks :
       (/\ ReachesTanks(b)
        /\ OnTank(b, drawn.tanks[j])
        /\ SideOf(b) = "bot"
        /\ drawn.tanks[j].side = "bot") =>
          /\ ~HitBy("player", j) => Unhurt(j)
          /\ (\A i \in DrawnTanks :
                 ~(/\ drawn.tanks[i].side = "player"
                   /\ drawn.tanks[i].alive
                   /\ OnTank(b, drawn.tanks[i]))) => Kept(b)

\* the bullet of one bot was on the other bot, whose hp stayed 2, and flies on
C17_Witness ==
    /\ \E b \in LandedBullets :
          /\ b.tankId = 3 /\ OnTank(b, drawn.tanks[4]) /\ ReachesTanks(b) /\ Kept(b)
    /\ drawn.tanks[4].alive
    /\ tanks[4].hp = 2
    /\ tanks[4].alive

\* C18: a bot's bullet that overlaps an alive player tank leaves hp and alive as they
\* were if the tank's helmetDuration is above 0; otherwise hp decreases by exactly 1 and
\* alive becomes false iff hp has reached 0.  Every tick takes its delta off the
\* helmetDuration after the collisions, so a tank spawned with 2000 loses no hp before
\* ticks of 2000 ms in all have run
C18_BotBulletOnPlayer ==
    \A j \in DrawnTanks :
       /\ (/\ drawn.tanks[j].side = "player"
           /\ drawn.tanks[j].alive
           /\ \E b \in LandedBullets :
                 ReachesTanks(b) /\ OnTank(b, drawn.tanks[j]) /\ SideOf(b) = "bot") =>
             IF drawn.tanks[j].helmetDuration > 0
               THEN Unhurt(j)
               ELSE /\ tanks[j].hp = drawn.tanks[j].hp - 1
                    /\ tanks[j].alive = (tanks[j].hp > 0)
       /\ tanks[j].helmetDuration = Max(0, drawn.tanks[j].helmetDuration - ArenaDelta)

\* two bullets of bots were on the host tank without a helmet, which lost its one hp
\* and died
C18_Witness ==
    /\ Len(drawn.bullets) = 2
    /\ \A b \in LandedBullets :
          ReachesTanks(b) /\ OnTank(b, drawn.tanks[1]) /\ SideOf(b) = "bot"
    /\ drawn.tanks[1].alive
    /\ drawn.tanks[1].helmetDuration = 0
    /\ tanks[1].hp = 0
    /\ ~tanks[1].alive

\* the grid cells the 3x3 box of b shares an area with
Crosses(b, cell, per) ==
    { row * per + col :
        row \in Max(0, b.y \div U(cell))..Min(per - 1, (b.y + U(BULLET_SIZE) - 1) \div U(cell)),
        col \in Max(0, b.x \div U(cell))..Min(per - 1, (b.x + U(BULLET_SIZE) - 1) \div U(cell)) }

\* the i-th drawn bullet after the move of the tick
DrawnAt(i) == Landed(drawn.bullets[i])

\* the cells visited for the bullets ahead of the i-th with at least the given power
VisitedBefore(i, cell, per, power) ==
    UNION { CellsUnderBullet(DrawnAt(k), cell, per) :
              k \in { n \in 1..(i - 1) : InField(DrawnAt(n)) /\ DrawnAt(n).power >= power } }

\* the brick and steel cells present when the tick starts
BricksAtStart(i) == Stage1Bricks \ drawn.brokenBricks
SteelsAtStart(i) == Stage1Steels \ drawn.brokenSteels

\* the brick and steel cells present when the loop over the bullets reaches the i-th
BricksInTurn(i) == BricksAtStart(i) \ VisitedBefore(i, BRICK_SIZE, BRICKS_PER_ROW, 1)
SteelsInTurn(i) == SteelsAtStart(i) \ VisitedBefore(i, STEEL_SIZE, STEELS_PER_ROW, 3)

\* each drawn bullet that lands in the field on a cell of its bricks or steels is removed,
\* the bricks under it are cleared, the steels under it are cleared if its power is 3 or
\* more, and are cleared by a bullet of power 3 or more if at all
WallHits(bricksFor(_), steelsFor(_)) ==
    \A i \in 1..Len(drawn.bullets) :
      LET b == DrawnAt(i)
          pb == Crosses(b, BRICK_SIZE, BRICKS_PER_ROW) \cap bricksFor(i)
          ps == Crosses(b, STEEL_SIZE, STEELS_PER_ROW) \cap steelsFor(i)
      IN InField(b) =>
           /\ (pb # {} \/ ps # {}) => ~Kept(b)
           /\ pb \subseteq brokenBricks
           /\ b.power >= 3 => ps \subseteq brokenSteels
           /\ b.power < 3 =>
                \A s \in ps \cap brokenSteels :
                  \E k \in 1..Len(drawn.bullets) :
                    /\ InField(DrawnAt(k)) /\ DrawnAt(k).power >= 3
                    /\ s \in CellsUnderBullet(DrawnAt(k), STEEL_SIZE, STEELS_PER_ROW)

----------------------------------------------------------------------------
(* Claims on firing                                                         *)

\* the tanks, bullets and bullet id counter after the updatePlayerTanks of a tick of delta ms
AfterPlayerTanks(delta) ==
    updatePlayerTanks([tanks |-> tanks, bullets |-> bullets, bid |-> bulletIdCounter], delta)

\* the index in tanks of the tank of the role's slot
TankOf(role) == FindTank(tanks, players[role].activeTankId)

\* the tank of the role fires in the coming tick
Ready(role) ==
    /\ playerInputs[role].firing
    /\ tanks[TankOf(role)].alive
    /\ tanks[TankOf(role)].cooldown <= 0

\* what updatePlayerTanks leaves for a tick of delta ms, and what the tick leaves of it
FireStep(delta) ==
    \A s \in {AfterPlayerTanks(delta)} :
       /\ SubSeq(s.bullets, 1, Len(bullets)) = bullets
       /\ Len(s.bullets) =
            Len(bullets) + Cardinality({ r \in RoleSet : TankOf(r) # 0 /\ Ready(r) })
       /\ s.bid = bulletIdCounter + Len(s.bullets) - Len(bullets)
       /\ bulletIdCounter' = s.bid
       /\ \A role \in RoleSet :
            LET j == TankOf(role)
                shots == { k \in (Len(bullets) + 1)..Len(s.bullets) :
                             s.bullets[k].tankId = tanks[j].tankId }
                left == { k \in 1..Len(bullets') :
                            /\ bullets'[k].bulletId > bulletIdCounter
                            /\ bullets'[k].tankId = tanks[j].tankId }
            IN j # 0 =>
                 /\ Cardinality(shots) = IF Ready(role) THEN 1 ELSE 0
                 /\ tanks[j].cooldown > 0 => shots = {} /\ left = {}
                 /\ \A k \in shots :
                      /\ s.bullets[k].power = 1
                      /\ s.bullets[k].speed = BULLET_SPEED
                      /\ s.bullets[k].direction = s.tanks[j].direction
                      /\ s.bullets[k].bulletId > bulletIdCounter
                 /\ s.tanks[j].cooldown = IF Ready(role) THEN 300 ELSE tanks[j].cooldown
                 /\ Cardinality(left) <= Cardinality(shots)
                 /\ \A k \in left :
                      /\ bullets'[k].power = 1
                      /\ bullets'[k].speed = BULLET_SPEED
                      /\ bullets'[k].direction = tanks'[j].direction

\* C20: in a tick a player tank emits a bullet iff its slot's latest input has firing = true,
\* the tank is alive and its cooldown is <= 0 at that point of the tick (a tank with
\* cooldown > 0 emits none); a fire appends exactly one bullet, with power 1, speed 0.18,
\* the tank's direction and the tank's id as owner, and sets the tank's cooldown to 300;
\* a tank that does not fire keeps its cooldown there, and the bullets there were are kept
C20_FireWhenReady ==
    [][ticks' = ticks + 1 => \A delta \in FireDeltas : FireStep(delta)]_vars

\* the host tank fired in the on-time tick before (its bullet is the newest, its cooldown
\* is 300 less the 16 ms of that tick), the fire key is still held, and the coming tick
\* emits no bullet for it, while the guest tank fires in the coming tick
C20_Witness ==
    /\ Len(tanks) = 2
    /\ playerInputs["host"].firing
    /\ tanks[1].cooldown = FIRE_COOLDOWN - 16
    /\ \E k \in 1..Len(bullets) : bullets[k].tankId = tanks[1].tankId /\ bullets[k].power = 1
    /\ Ready("guest")
    /\ Len(AfterPlayerTanks(16).bullets) = Len(bullets) + 1

----------------------------------------------------------------------------
(* Claims on the enemy queue                                                *)

\* the room code has a queue in the manager m
HasQueue(m, roomId) == managers[m][roomId] # NoEntry

\* the positions of the level in the queue
PlacesOf(queue, level) == { i \in 1..Len(queue) : queue[i] = level }

C22_RemainingPlusSpawned ==
    \A r \in RoomIds :
      (roomIsPlaying(rooms, r) /\ tickInterval) =>
        getState.remainingBots + roomEnemyCounters[r] = ENEMY_QUEUE_LENGTH

\* the queue indices of the enemy_spawn events of room r in emits that go to socket s
SpawnsTo(emits, s, r) ==
    LET es == SelectSeq(emits, LAMBDA e : /\ e.to = s
                                          /\ e.ev = "game_state_event"
                                          /\ e.type = "enemy_spawn"
                                          /\ e.data.tankId[2] = r)
    IN [i \in 1..Len(es) |-> es[i].data.tankId[3]]

\* a step of the gateway, seen from room r: the start of a game spawns the indices 0..3,
\* a firing of the spawn interval spawns the next index if the room is playing and the
\* queue is not used up and otherwise clears the interval, nothing else spawns
SpawnStep(r) ==
    LET counter == roomEnemyCounters[r]
        gameStarts == /\ last'.op = "join_room" /\ last'.room = r
                      /\ \E i \in 1..Len(emitted') : emitted'[i].ev = "game_start"
        fires == last'.op = "spawn_tick" /\ last'.room = r
    IN /\ roomEnemyCounters'[r] <= ENEMY_QUEUE_LENGTH
       /\ \A s \in Sockets \ members(ioRooms', r) : SpawnsTo(emitted', s, r) = << >>
       /\ gameStarts =>
            /\ roomEnemyCounters'[r] = 4
            /\ Cardinality(members(ioRooms', r)) = 2
            /\ \A s \in members(ioRooms', r) : SpawnsTo(emitted', s, r) = <<0, 1, 2, 3>>
       /\ (fires /\ ~gameStarts) =>
            IF roomIsPlaying(rooms, r) /\ counter \in 0..(ENEMY_QUEUE_LENGTH - 1)
              THEN /\ roomEnemyCounters'[r] = counter + 1
                   /\ \A s \in members(ioRooms', r) : SpawnsTo(emitted', s, r) = <<counter>>
                   /\ spawnIntervals'[r] = spawnIntervals[r]
              ELSE /\ roomEnemyCounters'[r] = counter
                   /\ \A s \in Sockets : SpawnsTo(emitted', s, r) = << >>
                   /\ spawnIntervals'[r] = spawnIntervals[r] - 1
                   /\ r \notin enemySpawnTimers'
       /\ (~fires /\ ~gameStarts) =>
            /\ \A s \in Sockets : SpawnsTo(emitted', s, r) = << >>
            /\ roomEnemyCounters'[r] \in {counter, NoQueue}

\* a game is on in room r: the room is playing and both players are in it
GameOn(r) == roomIsPlaying(rooms, r) /\ PlayersOf(rooms[r]) = RoleSet

\* the 20th bot of room r has been spawned and the spawn interval is cleared
SpawnedAll(r) == roomEnemyCounters[r] = ENEMY_QUEUE_LENGTH /\ spawnIntervals[r] = 0

\* C23: on game start exactly 4 bots are spawned at once (queue indices 0..3); afterwards
\* each firing of the spawn timer spawns exactly one bot, the next of the queue, and only
\* while the room is playing; the index spawned is the number spawned before it in the game,
\* so no index is spawned twice and the total never exceeds 20; and a room that stays
\* playing, with both players in it, gets its 20th bot, after which the timer clears
\* itself and nothing is spawned
C23_SpawnSchedule ==
    /\ [][\A r \in RoomIds : SpawnStep(r)]_vars
    /\ \A r \in RoomIds : GameOn(r) ~> (~GameOn(r) \/ SpawnedAll(r))

\* room 1 is playing with all 20 bots spawned, the interval has fired once more, spawned
\* nothing and cleared itself
C23_Witness ==
    /\ GameOn(1)
    /\ SpawnedAll(1)
    /\ 1 \notin enemySpawnTimers
    /\ last.op = "spawn_tick"
    /\ last.room = 1
    /\ emitted = << >>

----------------------------------------------------------------------------
(* Claims on the inputs of the engine                                       *)

\* every player_input a client can send: with or without a direction
AnyInput == [direction : Directions \cup {NoDirection}, moving : BOOLEAN, firing : BOOLEAN]

\* handleInput with the same input a second time leaves the cells as the first time left them
ResendIsNoOp ==
    \A role \in RoleSet, input \in AnyInput :
      storeInput(storeInput(playerInputs, role, input), role, input)
        = storeInput(playerInputs, role, input)

\* handleInput on one slot leaves the other slot's cell
OtherCellKept ==
    \A role \in RoleSet, input \in AnyInput :
      \A other \in RoleSet \ {role} :
        storeInput(playerInputs, role, input)[other] = playerInputs[other]

\* a step that changes a cell changes one cell and no tank, no bullet and not the map
InputStep ==
    playerInputs' # playerInputs =>
      /\ Cardinality({ role \in RoleSet : playerInputs'[role] # playerInputs[role] }) = 1
      /\ UNCHANGED <<tanks, bullets, brokenBricks, brokenSteels>>

\* C24: applying the same player_input twice in a row to the engine leaves the slot's
\* latest-input cell, which is all the next tick reads of the inputs, as applying it once
\* does; handleInput for one slot never changes the other slot's cell, any tank, any
\* bullet or the map
C24_ResendTolerated == [](ResendIsNoOp /\ OtherCellKept) /\ [][InputStep]_vars

\* the engine is playing, the host's cell holds an input that drives, the guest's cell is
\* as it was made, a tick has run, and an input without direction, sent once or twice,
\* would keep the host's direction and change the rest of the cell
C24_Witness ==
    /\ gameStatus = "playing"
    /\ ticks > 0
    /\ playerInputs["host"].moving
    /\ playerInputs["host"].direction = "right"
    /\ playerInputs["guest"] = NoInput
    /\ storeInput(playerInputs, "host",
                  [direction |-> NoDirection, moving |-> FALSE, firing |-> TRUE])["host"]
         = [direction |-> "right", moving |-> FALSE, firing |-> TRUE]

----------------------------------------------------------------------------
(* Claims on dead tanks and on the owners of bullets                        *)

\* the ids of the tanks of a drawn state
DrawnTankIds == 1..4

\* the tank with this id is in state.tanks and is dead
DeadInList(id) == \E j \in 1..Len(tanks) : tanks[j].tankId = id /\ ~tanks[j].alive

\* no tank with this id is in state.tanks
NotInList(id) == \A j \in 1..Len(tanks) : tanks[j].tankId # id

\* a tank that is alive before a tick is in the list after it, dead if its hp is 0 or less
DyingTankStays ==
    \A j \in 1..Len(tanks) :
      tanks[j].alive =>
        \E k \in 1..Len(tanks') :
          /\ tanks'[k].tankId = tanks[j].tankId
          /\ tanks'[k].hp <= 0 => ~tanks'[k].alive

Orphan(bullet) == \A j \in 1..Len(tanks) : tanks[j].tankId # bullet.tankId

\* the owner of every bullet is in state.tanks
OwnersResolve == \A i \in 1..Len(bullets) : ~Orphan(bullets[i])

\* a tick removes every bullet whose owner is not in the list, and when no bullet has an
\* owner no tank loses hp or dies
OrphanStep ==
    /\ \A i \in 1..Len(bullets) :
         Orphan(bullets[i]) =>
           \A k \in 1..Len(bullets') : bullets'[k].bulletId # bullets[i].bulletId
    /\ (\A i \in 1..Len(bullets) : Orphan(bullets[i])) =>
         \A j \in 1..Len(tanks) : tanks'[j].hp = tanks[j].hp /\ tanks'[j].alive = tanks[j].alive

----------------------------------------------------------------------------
(* Claims on the movement of tanks                                          *)

Abs(n) == IF n >= 0 THEN n ELSE 0 - n

\* the input of the slot whose active tank this is, NoInput for a tank of no slot
InputOf(tank) ==
    IF \E r \in RoleSet : players[r].activeTankId = tank.tankId
      THEN playerInputs[CHOOSE r \in RoleSet : players[r].activeTankId = tank.tankId]
      ELSE NoInput

\* the coordinate of the tank on the axis it faces after the tick, and on the other axis
Along(tank, facing) == IF IsHorizontal(facing) THEN tank.x ELSE tank.y
Across(tank, facing) == IF IsHorizontal(facing) THEN tank.y ELSE tank.x

\* from old to new the tank goes at most speed * delta along the axis it faces; the
\* other coordinate changes only at a perpendicular turn, to a multiple of 8 less
\* than 8 away; without a turn and without moving = true nothing changes
NoTeleport(old, new, input, delta) ==
    /\ Abs(Along(new, new.direction) - Along(old, new.direction)) <= TANK_SPEED_player * delta
    /\ Across(new, new.direction) # Across(old, new.direction) =>
         /\ IsHorizontal(old.direction) # IsHorizontal(new.direction)
         /\ Across(new, new.direction) % U(8) = 0
         /\ Abs(Across(new, new.direction) - Across(old, new.direction)) < U(8)
    /\ (new.direction = old.direction /\ ~input.moving) => new.x = old.x /\ new.y = old.y

\* the tick that is due, of FrameTime(ticks + 1) ms, teleports no tank that is alive
NoTeleportStep ==
    /\ Len(tanks') = Len(tanks)
    /\ \A j \in 1..Len(tanks) :
         tanks[j].alive =>
           /\ tanks'[j].tankId = tanks[j].tankId
           /\ NoTeleport(tanks[j], tanks'[j], InputOf(tanks[j]), FrameTime(ticks + 1))

\* C27: in one tick the position of a tank that is alive changes by at most speed * delta
\* along the axis it faces, and besides only at a perpendicular turn, by a snap of the
\* other coordinate to a multiple of 8 less than 8 units away; a tick without a turn and
\* with moving = false leaves the position as it is
C27_NoTeleport == [][ticks' = ticks + 1 => NoTeleportStep]_vars

\* a tank faces right on a grid line that no sequence of moves from its spawn position
\* ends on (every move is a multiple of 36 model units): a turn has snapped it there
C27_Witness ==
    \E j \in 1..Len(tanks) :
       /\ tanks[j].alive
       /\ tanks[j].direction = "right"
       /\ tanks[j].y % U(8) = 0
       /\ (PLAYER_SPAWN_POSITIONS.host.y - tanks[j].y) % 36 # 0

\* a coordinate of a tank lies in [0, FIELD_SIZE - TANK_SIZE]
InField16(v) == 0 <= v /\ v <= FIELD_SIZE - TANK_SIZE

\* the tanks of the engine are inside the field (their coordinates are in model units)
TanksInField ==
    \A j \in 1..Len(tanks) :
       /\ 0 <= tanks[j].x /\ tanks[j].x <= U(FIELD_SIZE - TANK_SIZE)
       /\ 0 <= tanks[j].y /\ tanks[j].y <= U(FIELD_SIZE - TANK_SIZE)

\* the spawn positions of the enemy_spawn events sent by the last handler
SpawnsInField ==
    \A i \in 1..Len(emitted) :
       (emitted[i].ev = "game_state_event" /\ emitted[i].type = "enemy_spawn") =>
          InField16(emitted[i].data.x) /\ InField16(emitted[i].data.y)

\* the start positions of the game_state_init events sent by the last handler
StartsInField ==
    \A i \in 1..Len(emitted) :
       emitted[i].ev = "game_state_init" =>
          /\ InField16(emitted[i].data.hostPosition.x)
          /\ InField16(emitted[i].data.hostPosition.y)
          /\ InField16(emitted[i].data.guestPosition.x)
          /\ InField16(emitted[i].data.guestPosition.y)

\* C28: every tank coordinate the server produces or announces is in [0, 192] on both
\* axes: those of the engine's tanks, the spawn position of every enemy and the start
\* positions of host and guest in game_state_init
C28_CoordinatesInField == TanksInField /\ SpawnsInField /\ StartsInField

----------------------------------------------------------------------------
(* Claims on the order of the steps of a tick                               *)

\* the roles whose tanks fire in the tick that is due, in the order of the loop
Firing == SelectSeq(Roles, LAMBDA r : TankOf(r) # 0 /\ Ready(r))

\* the n-th bullet fired in the tick, as fireBullet makes it from where the tick leaves
\* the firing tank
Fired(n) == fireBullet(tanks'[TankOf(Firing[n])], bulletIdCounter + n)

\* the bullet after the move of a tick of delta ms
Advanced(b, delta) ==
    [b EXCEPT !.x = calculateNewPosition(b.x, b.y, b.direction, b.speed * delta).x,
              !.y = calculateNewPosition(b.x, b.y, b.direction, b.speed * delta).y]

\* the bullets the tick has to deal with, in list order: those of the state and those
\* fired in the tick, moved by the tick
InPlay ==
    [k \in 1..(Len(bullets) + Len(Firing)) |->
       Advanced(IF k <= Len(bullets) THEN bullets[k] ELSE Fired(k - Len(bullets)),
                OrderDelta(ticks + 1))]

\* the bullet is in the list after the tick as it is, or no bullet with its id is
StaysAs(b) == \E k \in 1..Len(bullets') : bullets'[k] = b
Gone(b) == \A k \in 1..Len(bullets') : bullets'[k].bulletId # b.bulletId

\* the k-th bullet of bs lands on a steel cell, or on a brick cell that is present and
\* is not cleared for a bullet ahead of it in the list
AtWall(bs, k) ==
    /\ InField(bs[k])
    /\ \/ Crosses(bs[k], STEEL_SIZE, STEELS_PER_ROW) \cap (Stage1Steels \ brokenSteels) # {}
       \/ Crosses(bs[k], BRICK_SIZE, BRICKS_PER_ROW)
            \cap ((Stage1Bricks \ brokenBricks)
                    \ UNION { CellsUnderBullet(bs[n], BRICK_SIZE, BRICKS_PER_ROW) :
                                n \in { m \in 1..(k - 1) : InField(bs[m]) } }) # {}

\* the bullet lands on or next to a wall cell that is present
NearWall(b) ==
    \/ CellsUnderBullet(b, STEEL_SIZE, STEELS_PER_ROW) \cap (Stage1Steels \ brokenSteels) # {}
    \/ CellsUnderBullet(b, BRICK_SIZE, BRICKS_PER_ROW) \cap (Stage1Bricks \ brokenBricks) # {}

\* what the order of the steps shows in the state after the tick
OrderStep ==
    \A bs \in {InPlay} :
       /\ bulletIdCounter' = bulletIdCounter + Len(Firing)
       /\ \A k \in 1..Len(bs) :
            /\ StaysAs(bs[k]) \/ Gone(bs[k])
            /\ ~InField(bs[k]) => Gone(bs[k])
            /\ AtWall(bs, k) => Gone(bs[k])
            /\ Gone(bs[k]) =>
                 \/ ~InField(bs[k])
                 \/ NearWall(bs[k])
                 \/ \E j \in 1..Len(tanks) :
                      tanks'[j].tankId # bs[k].tankId /\ OnTank(bs[k], tanks'[j])
       /\ \A j \in 1..Len(tanks) :
            (\A k \in 1..Len(bs) :
               (InField(bs[k]) /\ bs[k].tankId # tanks[j].tankId /\ OnTank(bs[k], tanks'[j]))
                  => AtWall(bs, k))
              => tanks'[j].hp = tanks[j].hp /\ tanks'[j].alive = tanks[j].alive
       /\ \A n \in 1..Len(Firing) :
            tanks'[TankOf(Firing[n])].cooldown = Max(0, FIRE_COOLDOWN - OrderDelta(ticks + 1))

\* C29: a tick updates the player tanks, host then guest, then moves the bullets and drops
\* those outside the field, then handles bullet-wall and then bullet-tank collisions, then
\* counts down: a bullet fired in a tick is moved and tested in that tick, a bullet that a
\* wall consumes hits no tank in that tick, and a tank that fires ends the tick with
\* cooldown max(0, 300 - delta)
C29_TickOrder == [][ticks' = ticks + 1 => OrderStep]_vars

\* the first tick: the host's bullet that came down on the corner of tank 3 and the brick
\* block is gone with bricks cleared and the tank unhurt, and the host has fired a bullet
\* that is in the list, with 284 ms of cooldown left
C29_Witness ==
    /\ ticks = 1
    /\ \E i \in 1..Len(drawn.bullets) :
         /\ drawn.bullets[i].tankId = 1
         /\ drawn.bullets[i].x = U(14)
         /\ \A k \in 1..Len(bullets) : bullets[k].bulletId # drawn.bullets[i].bulletId
    /\ brokenBricks # {}
    /\ tanks[3].alive /\ tanks[3].hp = drawn.tanks[3].hp
    /\ tanks[1].cooldown = FIRE_COOLDOWN - OrderDelta(1)
    /\ \E k \in 1..Len(bullets) :
         bullets[k].tankId = 1 /\ bullets[k].bulletId > Len(drawn.bullets)

\* where a tank at (x, y) facing d would go in a tick of delta ms, clamped to the field
Candidate(x, y, d, delta) ==
    clampPosition(calculateNewPosition(x, y, d, TANK_SPEED_player * delta).x,
                  calculateNewPosition(x, y, d, TANK_SPEED_player * delta).y, TANK_SIZE)

\* the candidate collides with a wall cell that is present
Blocked(x, y, d, delta) ==
    checkTankWallCollision(Candidate(x, y, d, delta).x, Candidate(x, y, d, delta).y)

\* the tanks that are alive and whose slot has moving = true
Driven == { j \in 1..Len(tanks) : tanks[j].alive /\ InputOf(tanks[j]).moving }

\* a driven tank whose candidate, taken from where it is before the tick, is blocked
\* has the same x and y after the tick
BlockedStays ==
    \A j \in Driven :
       Blocked(tanks[j].x, tanks[j].y, tanks'[j].direction, FrameTime(ticks + 1)) =>
          tanks'[j].x = tanks[j].x /\ tanks'[j].y = tanks[j].y

\* a driven tank whose candidate, taken from where the turn of the tick puts it, is
\* blocked is after the tick where the turn has put it
BlockedStaysAsTurned ==
    \A j \in Driven :
       \A turned \in {steer(tanks[j], InputOf(tanks[j]))} :
          Blocked(turned.x, turned.y, turned.direction, FrameTime(ticks + 1)) =>
             /\ tanks'[j].x = turned.x /\ tanks'[j].y = turned.y
             /\ turned.direction = tanks[j].direction =>
                  tanks'[j].x = tanks[j].x /\ tanks'[j].y = tanks[j].y

\* C30 as stated: if the candidate position of a moving tank (its position plus
\* speed * delta along its facing, clamped to the field) collides with a present wall
\* cell, x and y are both unchanged by that tick
C30_BlockedTankStays == [][ticks' = ticks + 1 => BlockedStays]_vars

\* C30: if the candidate position of a moving tank (its position after the turn of that
\* tick plus speed * delta along its facing, clamped to the field) collides with a present
\* wall cell, the tank does not advance in that tick: x and y are as the turn left them,
\* and unchanged if the tank did not turn; so on every tick while it faces the wall
C30_BlockedTankStaysAsTurned == [][ticks' = ticks + 1 => BlockedStaysAsTurned]_vars

\* the last tick turned the host's tank from up to right, which took its y to the grid,
\* and found it blocked to the right: x is as before the tick
C30_Witness ==
    /\ ticks >= 1
    /\ Len(drawn.tanks) >= 1 /\ Len(tanks) >= 1
    /\ drawn.tanks[1].alive /\ tanks[1].moving
    /\ drawn.tanks[1].direction = "up" /\ tanks[1].direction = "right"
    /\ tanks[1].y # drawn.tanks[1].y
    /\ tanks[1].x = drawn.tanks[1].x
    /\ checkTankWallCollisionIn(drawn.brokenBricks, drawn.brokenSteels,
                                Candidate(tanks[1].x, tanks[1].y, "right", FrameTime(ticks)).x,
                                Candidate(tanks[1].x, tanks[1].y, "right", FrameTime(ticks)).y)

----------------------------------------------------------------------------
(* Claims on the alignment at a turn                                        *)

\* the tank at (x, y), with the coordinate of the axis put to v, is free of the walls
FreeAt(x, y, axis, v) ==
    IF axis = "x" THEN ~checkTankWallCollision(v, y) ELSE ~checkTankWallCollision(x, v)

\* the coordinate a perpendicular turn gives the axis of the old facing: ceil8 if only
\* ceil8 is free, floor8 if only floor8 is free, round8 otherwise, kept in [0, 192]
Snapped(x, y, axis) ==
    LET coord == IF axis = "x" THEN x ELSE y
        canFloor == FreeAt(x, y, axis, floor8(coord))
        canCeil == FreeAt(x, y, axis, ceil8(coord))
        to == IF canCeil /\ ~canFloor THEN ceil8(coord)
              ELSE IF canFloor /\ ~canCeil THEN floor8(coord)
              ELSE round8(coord)
    IN Max(0, Min(U(FIELD_SIZE - TANK_SIZE), to))

\* the tanks that are alive and whose slot asks for another direction than they have
Turning ==
    { j \in 1..Len(tanks) :
        /\ tanks[j].alive
        /\ InputOf(tanks[j]).direction # NoDirection
        /\ InputOf(tanks[j]).direction # tanks[j].direction }

\* what a tick does to the coordinates of a tank at a turn, and without one
TurnStep ==
    \A j \in 1..Len(tanks) :
       LET old == tanks[j]
           new == tanks'[j]
           input == InputOf(old)
           axis == IF IsHorizontal(old.direction) THEN "x" ELSE "y"
       IN old.alive =>
            /\ (j \in Turning /\ IsHorizontal(old.direction) # IsHorizontal(input.direction)) =>
                 /\ new.direction = input.direction
                 /\ axis = "x" => new.x = Snapped(old.x, old.y, "x")
                 /\ axis = "y" => new.y = Snapped(old.x, old.y, "y")
                 /\ ~input.moving => (axis = "x" => new.y = old.y) /\ (axis = "y" => new.x = old.x)
            /\ (j \in Turning /\ IsHorizontal(old.direction) = IsHorizontal(input.direction)) =>
                 /\ new.direction = input.direction
                 /\ Across(new, new.direction) = Across(old, new.direction)
                 /\ ~input.moving => new.x = old.x /\ new.y = old.y
            /\ j \notin Turning =>
                 /\ new.direction = old.direction
                 /\ Across(new, new.direction) = Across(old, new.direction)
                 /\ ~input.moving => new.x = old.x /\ new.y = old.y

\* C31: at a perpendicular turn the coordinate on the axis of the old facing becomes
\* ceil8 if only ceil8 is free of walls, floor8 if only floor8 is, round8 if both or
\* neither are, clamped to [0, 192], and the alignment leaves the other coordinate; a
\* turn by 180 degrees or an input of the same direction aligns nothing
C31_TurnAlignment == [][ticks' = ticks + 1 => TurnStep]_vars

\* the last tick turned the host's tank, drawn under the bricks with the lower row
\* cleared, from up to right: y went to the grid line below, the only free one, the
\* nearest grid line being the one above
C31_Witness ==
    /\ ticks >= 1
    /\ drawn.tanks # << >>
    /\ drawn.tanks[1].direction = "up" /\ tanks[1].direction = "right"
    /\ drawn.tanks[1].y = U(84) - 1
    /\ round8(drawn.tanks[1].y) = U(80)
    /\ tanks[1].y = U(88)

\* how many entries of the queue have the level
CountOf(queue, level) == Cardinality({ i \in 1..Len(queue) : queue[i] = level })

\* line 144 at the 0-based position i, random being the state of the generator before it
SwapIndex(random, i) == (seededRandom(random) * (i + 1)) \div LCG_MODULUS

\* the swap indexes of the shuffle from the 0-based position i down to 1 are within 0..i
RECURSIVE SwapsWithin(_, _)
SwapsWithin(random, i) ==
    \/ i <= 0
    \/ /\ SwapIndex(random, i) \in 0..i
       /\ SwapsWithin(seededRandom(random), i - 1)

\* the queue is a permutation of 18 basic, 1 fast and 1 power
IsPermutation(queue) ==
    /\ Len(queue) = 20
    /\ CountOf(queue, "basic") = 18
    /\ CountOf(queue, "fast") = 1
    /\ CountOf(queue, "power") = 1

\* C32: for every room id the queue initializeEnemyQueue builds has 20 entries and is a
\* permutation of 18 basic, 1 fast and 1 power, every swap index of the shuffle is
\* within 0..i, every enemy spawned from it has hp 1, and the enemies with a power-up
\* are those with index 3, 10 and 17
C32_QueueIsPermutation ==
    /\ SwapsWithin(seedResidue(trial.seed), Len(enemyQueue) - 1)
    /\ trial.counter # NoQueue =>
         /\ IsPermutation(trial.queue)
         /\ \A c \in 0..(Len(trial.queue) - 1) :
              /\ enemySpawnData(trial.queue, c).level \in {"basic", "fast", "power"}
              /\ enemySpawnData(trial.queue, c).hp = 1
              /\ enemySpawnData(trial.queue, c).withPowerUp <=> c \in {3, 10, 17}
         /\ \A k \in 1..Len(trial.spawned) :
              /\ trial.spawned[k] = enemySpawnData(trial.queue, trial.spawned[k].index)
              /\ trial.spawned[k].hp = 1
              /\ trial.spawned[k].withPowerUp <=> trial.spawned[k].index \in {3, 10, 17}

\* a shuffled queue whose fast and power enemies came to the front, and the enemy with
\* index 3 was spawned from it, a basic one with a power-up
C32_Witness ==
    /\ trial.counter = 4
    /\ trial.queue # enemyQueue
    /\ \E i \in 1..3 : trial.queue[i] # "basic"
    /\ Len(trial.spawned) = 1
    /\ trial.spawned[1].index = 3
    /\ trial.spawned[1].withPowerUp
    /\ trial.spawned[1].hp = 1

----------------------------------------------------------------------------
(* Claims on the life of a bullet                                           *)

\* the boxes of the bullet and of the tank overlap
Inside(b, t) ==
    /\ t.x - U(BULLET_SIZE) < b.x /\ b.x < t.x + U(TANK_SIZE)
    /\ t.y - U(BULLET_SIZE) < b.y /\ b.y < t.y + U(TANK_SIZE)

\* the side a bullet counts for
OwnerSide(b) ==
    IF FindTank(tanks, b.tankId) = 0 THEN "player" ELSE tanks[FindTank(tanks, b.tankId)].side

\* the tank at index j consumes the bullets of b's owner that reach it
Consumes(j, b) ==
    /\ tanks[j].tankId # b.tankId
    /\ OwnerSide(b) = "player" \/ tanks[j].side = "player"

\* a bullet with the id is in the list
InFlight(id) == \E k \in 1..Len(bullets) : bullets[k].bulletId = id

\* what a tick of positive delta does to the bullets of the list
FlightStep ==
    \A bs \in { [k \in 1..Len(bullets) |-> Advanced(bullets[k], FlightDelta(ticks + 1))] } :
       /\ FlightDelta(ticks + 1) > 0
       /\ \A k \in 1..Len(bs) :
            /\ bs[k].direction = bullets[k].direction /\ bs[k].speed = bullets[k].speed
            /\ bs[k] # bullets[k]
            /\ StaysAs(bs[k]) \/ Gone(bs[k])
            /\ ~InField(bs[k]) => Gone(bs[k])
            /\ AtWall(bs, k) => Gone(bs[k])
            /\ (/\ InField(bs[k])
                /\ \E j \in 1..Len(tanks) :
                      tanks'[j].alive /\ Consumes(j, bs[k]) /\ Inside(bs[k], tanks[j]))
                 => Gone(bs[k])
            /\ Gone(bs[k]) =>
                 \/ ~InField(bs[k])
                 \/ NearWall(bs[k])
                 \/ \E j \in 1..Len(tanks) :
                      tanks[j].alive /\ Consumes(j, bs[k]) /\ OnTank(bs[k], tanks[j])

\* C33: every bullet is eventually removed: a tick of positive delta moves a bullet on with
\* its direction and speed and removes it at its first wall hit, at its first hit of a
\* tank that consumes it, or when its box is not in the field any more, so that no bullet
\* stays in the list for ever
C33_BulletsEnd ==
    /\ [][ticks' = ticks + 1 => FlightStep]_vars
    /\ \A id \in 1..MaxFlightBullets : InFlight(id) ~> ~InFlight(id)

\* a bullet of the host flew down the field for more than 30 ticks, through the gap that a
\* bullet ahead of it had cleared in the bricks, and the last tick took it from the list
\* as its box left the field at the bottom
C33_Witness ==
    /\ ticks > 30
    /\ bullets = << >>
    /\ Len(drawn.bullets) = 1
    /\ drawn.bullets[1].direction = "down"
    /\ drawn.bullets[1].tankId = 1
    /\ InField(drawn.bullets[1])
    /\ ~InField(Advanced(drawn.bullets[1], FlightDelta(ticks)))

----------------------------------------------------------------------------
(* Claims on the client's prediction                                        *)

\* the square of the distance between the places, in model units
Distance2(a, b) == (a.x - b.x) * (a.x - b.x) + (a.y - b.y) * (a.y - b.y)

\* the predicted position is within 2.0 of where the server has the tank
NearAuthority ==
    /\ prediction.predicted # NoPos
    /\ Distance2(prediction.predicted, prediction.authority) <= (2 * Scale) * (2 * Scale)

\* the predicted position is more than 2.0 from where the server has the tank
FarFromAuthority == prediction.predicted # NoPos /\ ~NearAuthority

\* v is 0.3 of d, cut to the model unit
IsFactorOf(v, d) == 10 * v - 3 * d > -10 /\ 10 * v - 3 * d < 10

\* what a snapshot does to the predicted position of the local player's moving tank
SyncStep ==
    (prediction.moving /\ prediction.predicted # NoPos) =>
       IF NearAuthority
         THEN prediction'.predicted = prediction.predicted
         ELSE /\ IsFactorOf(prediction'.predicted.x - prediction.predicted.x,
                            prediction.authority.x - prediction.predicted.x)
              /\ IsFactorOf(prediction'.predicted.y - prediction.predicted.y,
                            prediction.authority.y - prediction.predicted.y)

\* C34: on a state_sync for the local player's moving tank the client keeps its predicted
\* position when the server's position is within 2.0 of it and otherwise moves it towards
\* the server's position by 0.3 of the difference; with the server's position standing and
\* snapshots coming again and again, the predicted position of the moving tank comes to
\* within 2.0 of the server's
C34_PredictionConverges ==
    /\ [][StateSync => SyncStep]_vars
    /\ (prediction.moving /\ FarFromAuthority) ~> (NearAuthority \/ ~prediction.moving)

----------------------------------------------------------------------------
(* Claims on the client's lobby.  lobby.log holds the actions that reached   *)
(* the store, in order.                                                      *)

RECURSIVE reduced(_, _)
reduced(l, actions) ==
    IF actions = << >> THEN l ELSE reduced(reducer(l, Head(actions)), Tail(actions))

\* the multiplayer record when the first n actions of the log have reached the store
StoreAfter(n) == reduced(LobbyStart(lobby.saga), SubSeq(lobby.log, 1, n))

TypeAt(n) == lobby.log[n].type

\* a countdown is running when the action at c reaches the store
Counting(c) ==
    \E p \in 1..(c - 1) :
       /\ TypeAt(p) = "StartGameCountdown"
       /\ \A q \in (p + 1)..(c - 1) :
            TypeAt(q) \notin {"CancelGameCountdown", "MultiplayerGameStart", "DisableMultiplayer"}

\* the countdown that is running at c starts the game
StartedAfter(c) ==
    \E g \in (c + 1)..Len(lobby.log) :
       /\ TypeAt(g) = "MultiplayerGameStart"
       /\ \A q \in (c + 1)..(g - 1) : TypeAt(q) # "StartGameCountdown"

\* the UpdateCountdown actions among those at s + 1 to g - 1
CountdownsBetween(s, g) ==
    SelectSeq(SubSeq(lobby.log, s + 1, g - 1), LAMBDA a : a.type = "UpdateCountdown")

\* every MultiplayerGameStart is followed by startGame(0) and the push, and comes after a
\* SetGameInitialState that left gameInitialState and roomInfo non-null and after the
\* countdown's 3, 2, 1, 0, with no DisableMultiplayer and no SetRoomInfo in between
StartsInOrder ==
    \A g \in 1..Len(lobby.log) :
       TypeAt(g) = "MultiplayerGameStart" =>
          /\ g + 2 <= Len(lobby.log)
          /\ lobby.log[g + 1] = TheAction("StartGame", 0)
          /\ TypeAt(g + 2) = "push"
          /\ \E s \in 1..(g - 1) :
               /\ TypeAt(s) = "SetGameInitialState"
               /\ StoreAfter(s).gameInitialState
               /\ StoreAfter(s).roomInfo # NoInfo
               /\ \A q \in (s + 1)..(g - 1) : TypeAt(q) \notin {"DisableMultiplayer", "SetRoomInfo"}
               /\ CountdownsBetween(s, g) = [n \in 1..4 |-> TheAction("UpdateCountdown", 4 - n)]

\* an action of one of the types that comes while a countdown is running is followed by
\* CancelGameCountdown, which leaves isCountingDown = false and countdown = 0, and that
\* countdown does not start the game
InterruptCancels(types) ==
    \A c \in 1..Len(lobby.log) :
       (TypeAt(c) \in types /\ Counting(c)) =>
          /\ c + 1 <= Len(lobby.log)
          /\ TypeAt(c + 1) = "CancelGameCountdown"
          /\ ~StoreAfter(c + 1).isCountingDown
          /\ StoreAfter(c + 1).countdown = 0
          /\ ~StartedAfter(c)

\* a DisableMultiplayer that comes while a countdown is running is not followed by
\* CancelGameCountdown; it leaves isCountingDown = false and countdown = 0 itself, and
\* that countdown does not start the game
DisableResets ==
    \A c \in 1..Len(lobby.log) :
       (TypeAt(c) = "DisableMultiplayer" /\ Counting(c)) =>
          /\ c + 1 <= Len(lobby.log) => TypeAt(c + 1) # "CancelGameCountdown"
          /\ ~StoreAfter(c).isCountingDown
          /\ StoreAfter(c).countdown = 0
          /\ ~StartedAfter(c)

\* C35: with watchGameInitialState, MultiplayerGameStart (followed by startGame(0) and the
\* push to the first stage) is dispatched only after a SetGameInitialState that leaves
\* gameInitialState and roomInfo non-null and after UpdateCountdown 3, 2, 1, 0 in that
\* order with no DisableMultiplayer or SetRoomInfo in between; a countdown that one of
\* these interrupts dispatches CancelGameCountdown (isCountingDown = false,
\* countdown = 0) and does not start the game
C35_CountdownThenStart ==
    lobby.saga = "watchGameInitialState" =>
       StartsInOrder /\ InterruptCancels({"DisableMultiplayer", "SetRoomInfo"})

\* C35, as the saga has it: as above, but CancelGameCountdown is dispatched only for a
\* countdown that SetRoomInfo interrupts; DisableMultiplayer ends the saga before it
\* dispatches anything, and it is the reducer's reset on DisableMultiplayer that leaves
\* isCountingDown = false and countdown = 0
C35_CountdownThenStartOrReset ==
    lobby.saga = "watchGameInitialState" =>
       StartsInOrder /\ InterruptCancels({"SetRoomInfo"}) /\ DisableResets

\* a countdown was interrupted by the SetRoomInfo of a second room_created and cancelled,
\* and the countdown of the next game_state_init has run down and started the game
C35_Witness ==
    /\ lobby.saga = "watchGameInitialState"
    /\ \E c \in 1..Len(lobby.log) :
         /\ TypeAt(c) = "SetRoomInfo" /\ Counting(c)
         /\ \E g \in (c + 1)..Len(lobby.log) : TypeAt(g) = "MultiplayerGameStart"
    /\ lobby.at = "SetGameInitialState"

\* C36: a SetOpponentConnected with connected = false (player_left) that comes while the
\* countdown is running is followed by CancelGameCountdown, and that countdown does not
\* start the game
C36_PlayerLeftCancels ==
    \A c \in 1..Len(lobby.log) :
       (lobby.log[c] = TheAction("SetOpponentConnected", 0) /\ Counting(c)) =>
          /\ c + 1 <= Len(lobby.log)
          /\ TypeAt(c + 1) = "CancelGameCountdown"
          /\ ~StartedAfter(c)

----------------------------------------------------------------------------
(* Claims on the client's SocketService.  service.left holds, for every      *)
(* leaveRoom(), disconnect() and reconnect_failed that found room info, the  *)
(* session of that room and the number of messages sent until then.          *)

\* the service sent a reconnect for the session after it was left
ReconnectedAfterLeft(entry) ==
    \E n \in (entry.at + 1)..Len(service.sent) :
       service.sent[n] = [event |-> "reconnect", sessionId |-> entry.sessionId]

\* C40: after leaveRoom(), disconnect() or a received reconnect_failed the service holds
\* no info of the room that was left, and no later reconnect of the transport sends a
\* reconnect {sessionId} for it
C40_LeftRoomForgotten ==
    \A entry \in service.left :
       /\ service.roomInfo = NoInfo \/ service.roomInfo.sessionId # entry.sessionId
       /\ ~ReconnectedAfterLeft(entry)

----------------------------------------------------------------------------
(* Claims on the time between two shots.  drawn.shots holds every bullet     *)
(* fired under SpecCooldown with its tank and the sum of the tick deltas up  *)
(* to and including its firing tick.                                         *)

\* C37: two bullets fired by the same tank are at least 300 ms of simulated time apart:
\* the tick deltas from the first firing tick to the second add up to 300 or more
C37_ShotsApart ==
    \A m, n \in 1..Len(drawn.shots) :
       (m < n /\ drawn.shots[m].tankId = drawn.shots[n].tankId) =>
          drawn.shots[n].at - drawn.shots[m].at >= 300

----------------------------------------------------------------------------
(* Claims on the tanks one bullet hurts.  Under SpecPile drawn holds the     *)
(* tanks and bullets before the tick, in the order of the lists.             *)

RECURSIVE HpLost(_)
\* the hp that the first n tanks have lost in the tick
HpLost(n) == IF n = 0 THEN 0 ELSE HpLost(n - 1) + (drawn.tanks[n].hp - tanks[n].hp)

\* the bullets that the tick has removed
Consumed ==
    { n \in 1..Len(drawn.bullets) :
        \A k \in 1..Len(bullets) : bullets[k].bulletId # drawn.bullets[n].bulletId }

----------------------------------------------------------------------------
(* Claims on game_over at the gateway.                                       *)

\* the step announces an enemy or emits state_sync for room r
SpawnsOrSyncs(r) ==
    /\ last'.room = r
    /\ \E i \in 1..Len(emitted') :
         \/ emitted'[i].ev = "state_sync"
         \/ emitted'[i].ev = "game_state_event" /\ emitted'[i].type = "enemy_spawn"

\* the step takes no enemy from the queue of room r and announces none, and emits no
\* state_sync for it
Quiet(r) ==
    /\ ~SpawnsOrSyncs(r)
    /\ roomEnemyCounters'[r] = roomEnemyCounters[r] \/ roomEnemyCounters'[r] = NoQueue

\* game_over from a socket of a room ends the game of that room and is broadcast to the
\* room; from a socket in no room it changes nothing and emits nothing
GameOverStep ==
    last'.op = "game_over" =>
       /\ \A r \in RoomIds \ {last'.room} : rooms'[r] = rooms[r]
       /\ UNCHANGED <<enemySpawnTimers, spawnIntervals, stateSyncTimers, syncIntervals,
                      roomEnemyCounters, ioRooms>>
       /\ IF last'.room = 0
            THEN rooms' = rooms /\ emitted' = << >>
            ELSE /\ rooms'[last'.room] = [rooms[last'.room] EXCEPT !.status = "finished"]
                 /\ emitted' = toEach(members(ioRooms, last'.room), "game_over", "",
                                      [winner |-> "draw"])

\* both timers of room r are stopped
TimersStopped(r) ==
    /\ r \notin enemySpawnTimers /\ spawnIntervals[r] = 0
    /\ r \notin stateSyncTimers /\ syncIntervals[r] = 0

\* the timers of a room whose game has ended are stopped in the end, at the latest by
\* the join that starts the room's next game, which clears both before it sets them
OverStopsTimers ==
    \A r \in RoomIds :
       (RoomExists(rooms, r) /\ rooms[r].status = "finished")
          ~> (TimersStopped(r) \/ rooms[r].status = "playing")

====
